---- MODULE Spec2Model ----
(***************************************************************************)
(* fcnet, namespaced network: the Add / Check / Delete operations over the *)
(* host's namespaces, links, routes and nftables rulesets.                 *)
(*                                                                         *)
(* The host (kernel) state is shared by all operations.  One operation     *)
(* runs at a time (callers serialise invocations); each sub-operation of   *)
(* an operation is one step, and every netlink / nftables / netns call may *)
(* fail with its transport-level error.                                    *)
(***************************************************************************)
EXTENDS Integers, Sequences, FiniteSets, TLC

(* ------------------------------------------------------------------ *)
(* Bounds of the model                                                *)
(* ------------------------------------------------------------------ *)

\* Add and Delete operations a behaviour starts (Check changes nothing and is not counted)
MaxOps == 3

\* events the environment injects in a behaviour: a transport-level failure of a
\* sub-operation, a cancellation, a rule removed by another agent
MaxFaults == 1

(* ------------------------------------------------------------------ *)
(* Names and constants                                                *)
(* ------------------------------------------------------------------ *)

NFT_TABLE == "fcnet"

NFT_POSTROUTING_CHAIN == "postrouting"

NFT_FILTER_CHAIN == "filter"

NFT_PREROUTING_CHAIN == "prerouting"

\* the namespace of the calling process
HOST == "host"

NoAddr == [fam |-> "none", net |-> "", s |-> ""]

V4(net, s) == [fam |-> "V4", net |-> net, s |-> s]

V6(net, s) == [fam |-> "V6", net |-> net, s |-> s]

Inet(addr, plen) == [address |-> addr, network_length |-> plen]

\* IpAddr::to_string: the textual form of the address
AddrToString(addr) == addr.s

(* ------------------------------------------------------------------ *)
(* The network specs the operations are run on                        *)
(* ------------------------------------------------------------------ *)

\* V4 with a forwarded guest ip
SpecA ==
    [ ip_stack |-> "V4", iface_name |-> "eth0",
      tap_name |-> "tap0", tap_ip |-> Inet(V4("172.16.0", "172.16.0.1"), 24),
      guest_ip |-> Inet(V4("172.16.0", "172.16.0.2"), 24),
      netns_name |-> "nsA", veth1_name |-> "veth0", veth2_name |-> "vpeer0",
      veth1_ip |-> Inet(V4("10.0.0", "10.0.0.1"), 24),
      veth2_ip |-> Inet(V4("10.0.0", "10.0.0.2"), 24),
      forwarded_guest_ip |-> V4("192.168.100", "192.168.100.50") ]

\* V4 without forwarding; names and addresses disjoint from SpecA's
SpecB ==
    [ ip_stack |-> "V4", iface_name |-> "eth0",
      tap_name |-> "tap0", tap_ip |-> Inet(V4("172.16.0", "172.16.0.1"), 24),
      guest_ip |-> Inet(V4("172.16.0", "172.16.0.2"), 24),
      netns_name |-> "nsB", veth1_name |-> "veth1", veth2_name |-> "vpeer1",
      veth1_ip |-> Inet(V4("10.0.1", "10.0.1.1"), 24),
      veth2_ip |-> Inet(V4("10.0.1", "10.0.1.2"), 24),
      forwarded_guest_ip |-> NoAddr ]

\* V4 veth pair with a V6 forwarded guest ip (dual-stack forwarding)
SpecC ==
    [ ip_stack |-> "V4", iface_name |-> "eth0",
      tap_name |-> "tap0", tap_ip |-> Inet(V4("172.16.0", "172.16.0.1"), 24),
      guest_ip |-> Inet(V4("172.16.0", "172.16.0.2"), 24),
      netns_name |-> "nsC", veth1_name |-> "veth2", veth2_name |-> "vpeer2",
      veth1_ip |-> Inet(V4("10.0.2", "10.0.2.1"), 24),
      veth2_ip |-> Inet(V4("10.0.2", "10.0.2.2"), 24),
      forwarded_guest_ip |-> V6("fd00:", "fd00::1") ]

Specs == {SpecA, SpecB, SpecC}

NsNames == {s.netns_name : s \in Specs}

Families == {"ip", "ip6", "inet"}

(* ------------------------------------------------------------------ *)
(* util.rs: families                                                  *)
(* ------------------------------------------------------------------ *)

nf_family(network) ==
    CASE network.ip_stack = "V4" -> "ip"
      [] network.ip_stack = "V6" -> "ip6"
      [] network.ip_stack = "Dual" -> "inet"

nat_proto_from_addr(addr) ==
    IF addr.fam = "V4" THEN "ip" ELSE "ip6"

(* ------------------------------------------------------------------ *)
(* mod.rs: rule-expression builders (statement lists)                  *)
(* ------------------------------------------------------------------ *)

MatchStmt(left, right) == [stmt |-> "match", left |-> left, right |-> right, op |-> "=="]

MetaExpr(key) == <<"meta", key>>

PayloadFieldExpr(protocol, field) == <<"payload", protocol, field>>

VerdictStmt(kind) == [stmt |-> kind, left |-> <<>>, right |-> "", op |-> ""]

outer_masq_expr(network) ==
    << MatchStmt(PayloadFieldExpr(nat_proto_from_addr(network.veth2_ip.address), "saddr"),
                 AddrToString(network.veth2_ip.address)),
       MatchStmt(MetaExpr("oifname"), network.iface_name),
       VerdictStmt("masquerade") >>

outer_ingress_forward_expr(network) ==
    << MatchStmt(MetaExpr("iifname"), network.iface_name),
       MatchStmt(MetaExpr("oifname"), network.veth1_name),
       VerdictStmt("accept") >>

\* mutant: the match on the input interface comes first, as in the ingress expression
outer_egress_forward_expr_IifnameFirst(network) ==
    << MatchStmt(MetaExpr("iifname"), network.veth1_name),
       MatchStmt(MetaExpr("oifname"), network.iface_name),
       VerdictStmt("accept") >>

outer_egress_forward_expr(network) ==
    << MatchStmt(MetaExpr("oifname"), network.iface_name),
       MatchStmt(MetaExpr("iifname"), network.veth1_name),
       VerdictStmt("accept") >>

nat_family_from_inet(inet) ==
    IF inet.address.fam = "V4" THEN "ip" ELSE "ip6"

NatStmt(kind, addr, family) == [stmt |-> kind, left |-> <<family>>, right |-> addr, op |-> ""]

inner_snat_expr(network) ==
    << MatchStmt(MetaExpr("oifname"), network.veth2_name),
       MatchStmt(PayloadFieldExpr(nat_proto_from_addr(network.guest_ip.address), "saddr"),
                 AddrToString(network.guest_ip.address)),
       NatStmt("snat", AddrToString(network.veth2_ip.address),
               IF nf_family(network) = "inet" THEN nat_family_from_inet(network.veth2_ip)
               ELSE "none") >>

inner_dnat_expr(network) ==
    << MatchStmt(MetaExpr("iifname"), network.veth2_name),
       MatchStmt(PayloadFieldExpr(nat_proto_from_addr(network.forwarded_guest_ip), "daddr"),
                 AddrToString(network.forwarded_guest_ip)),
       NatStmt("dnat", AddrToString(network.guest_ip.address),
               IF nf_family(network) = "inet" THEN nat_family_from_inet(network.guest_ip)
               ELSE "none") >>

(* ------------------------------------------------------------------ *)
(* nftables: objects, batches and their atomic application            *)
(* ------------------------------------------------------------------ *)

NfTable(family, name) ==
    [kind |-> "table", family |-> family, table |-> name, chain |-> "", hook |-> "",
     expr |-> <<>>, handle |-> 0]

NfChain(family, table, name, hook) ==
    [kind |-> "chain", family |-> family, table |-> table, chain |-> name, hook |-> hook,
     expr |-> <<>>, handle |-> 0]

\* handle 0 stands for None
NfRule(family, table, chain, expr, handle) ==
    [kind |-> "rule", family |-> family, table |-> table, chain |-> chain, hook |-> "",
     expr |-> expr, handle |-> handle]

BatchAdd(obj) == [verb |-> "add", obj |-> obj]

BatchDelete(obj) == [verb |-> "delete", obj |-> obj]

SeqToSet(s) == {s[i] : i \in DOMAIN s}

SetMax(S) == IF S = {} THEN 0 ELSE CHOOSE x \in S : \A y \in S : y <= x

HasTable(rs, family, table) ==
    \E o \in SeqToSet(rs) : o.kind = "table" /\ o.family = family /\ o.table = table

HasChain(rs, family, table, chain) ==
    \E o \in SeqToSet(rs) :
        o.kind = "chain" /\ o.family = family /\ o.table = table /\ o.chain = chain

HasRuleHandle(rs, family, table, chain, handle) ==
    \E o \in SeqToSet(rs) :
        /\ o.kind = "rule" /\ o.family = family /\ o.table = table
        /\ o.chain = chain /\ o.handle = handle

\* the kernel numbers the rules of a table upwards
NextHandle(rs, family, table) ==
    1 + SetMax({o.handle : o \in {x \in SeqToSet(rs) :
                    x.kind = "rule" /\ x.family = family /\ x.table = table}})

RemoveRule(rs, family, table, chain, handle) ==
    SelectSeq(rs, LAMBDA o :
        ~(o.kind = "rule" /\ o.family = family /\ o.table = table
          /\ o.chain = chain /\ o.handle = handle))

\* one entry of a batch on a working copy of the ruleset; ok = FALSE rejects the batch
ApplyEntry(st, e) ==
    LET rs == st.rs
        o == e.obj
    IN  IF ~st.ok THEN st
        ELSE IF e.verb = "add" /\ o.kind = "table" THEN
            IF HasTable(rs, o.family, o.table) THEN st
            ELSE [ok |-> TRUE, rs |-> Append(rs, o)]
        ELSE IF e.verb = "add" /\ o.kind = "chain" THEN
            IF ~HasTable(rs, o.family, o.table) THEN [ok |-> FALSE, rs |-> rs]
            ELSE IF HasChain(rs, o.family, o.table, o.chain) THEN st
            ELSE [ok |-> TRUE, rs |-> Append(rs, o)]
        ELSE IF e.verb = "add" /\ o.kind = "rule" THEN
            IF ~HasChain(rs, o.family, o.table, o.chain) THEN [ok |-> FALSE, rs |-> rs]
            ELSE [ok |-> TRUE,
                  rs |-> Append(rs, [o EXCEPT !.handle = NextHandle(rs, o.family, o.table)])]
        ELSE IF e.verb = "delete" /\ o.kind = "rule" THEN
            IF ~HasRuleHandle(rs, o.family, o.table, o.chain, o.handle)
            THEN [ok |-> FALSE, rs |-> rs]
            ELSE [ok |-> TRUE, rs |-> RemoveRule(rs, o.family, o.table, o.chain, o.handle)]
        ELSE [ok |-> FALSE, rs |-> rs]

RECURSIVE ApplyEntries(_, _)
ApplyEntries(st, batch) ==
    IF batch = <<>> THEN st
    ELSE ApplyEntries(ApplyEntry(st, Head(batch)), Tail(batch))

\* the whole batch commits or none of it does
BatchAccepted(rs, batch) == ApplyEntries([ok |-> TRUE, rs |-> rs], batch).ok

ApplyBatch(rs, batch) ==
    IF BatchAccepted(rs, batch) THEN ApplyEntries([ok |-> TRUE, rs |-> rs], batch).rs
    ELSE rs

(* ------------------------------------------------------------------ *)
(* State                                                              *)
(* ------------------------------------------------------------------ *)

VARIABLES
    netns,      \* names of the namespaces that exist
    links,      \* the links of all namespaces
    routes,     \* the routes of all namespaces
    nft,        \* namespace -> its ruleset, in listing order
    op,         \* the operation in progress (or the last one finished)
    thr,        \* the thread spawned by use_netns_in_thread
    chan,       \* the one-shot channel between that thread and the caller
    batches,    \* the nftables batches the current operation handed to apply
    prev,       \* the Add that ran right before the current operation, if one did
    host0,      \* the host as it was when the current operation was invoked
    added,      \* specs whose Add returned success, with no Delete invoked on them since
    nops,       \* Add and Delete operations started
    nfaults     \* events the environment has injected

host == <<netns, links, routes, nft>>

vars == <<netns, links, routes, nft, op, thr, chan, batches, prev, host0, added, nops, nfaults>>

HostRec == [netns |-> netns, links |-> links, routes |-> routes, nft |-> nft]

AllNs == {HOST} \cup NsNames

(* ------------------------------------------------------------------ *)
(* Kernel: links and routes                                           *)
(* ------------------------------------------------------------------ *)

LinksNamed(ls, ns, name) == {l \in ls : l.ns = ns /\ l.name = name}

LinkByIdx(ls, ns, idx) == {l \in ls : l.ns = ns /\ l.idx = idx}

\* the smallest index no link carries
FreshIdx(ls) == CHOOSE i \in 1..(Cardinality(ls) + 1) : \A l \in ls : l.idx # i

NewLink(idx, name, ns, kind, peer, up) ==
    [idx |-> idx, name |-> name, ns |-> ns, kind |-> kind, peer |-> peer,
     up |-> up, addrs |-> {}]

\* links through which a gateway is directly reachable in a namespace
Reach(ls, ns, gw) ==
    {l \in ls : /\ l.ns = ns /\ l.up
                /\ \E a \in l.addrs : a.address.fam = gw.fam /\ a.address.net = gw.net}

Route(ns, dst, plen, gw, dev) ==
    [ns |-> ns, dst |-> dst, plen |-> plen, gw |-> gw, dev |-> dev]

\* a route add is accepted when the gateway is reachable and no such route exists
RouteAccepted(ls, rts, ns, dst, plen, gw) ==
    /\ Reach(ls, ns, gw) # {}
    /\ ~\E r \in rts : r.ns = ns /\ r.dst = dst /\ r.plen = plen

RouteAdded(ls, rts, ns, dst, plen, gw) ==
    rts \cup {Route(ns, dst, plen, gw, (CHOOSE l \in Reach(ls, ns, gw) : TRUE).idx)}

(* ------------------------------------------------------------------ *)
(* Operations: bookkeeping                                            *)
(* ------------------------------------------------------------------ *)

NoSpec == [netns_name |-> "none"]

IdleOp ==
    [kind |-> "none", handler |-> "none", spec |-> NoSpec, pc |-> "done", result |-> "Ok", failed_at |-> "none",
     veth1_idx |-> 0, veth2_idx |-> 0, ruleset |-> <<>>,
     masq_handle |-> 0, ingress_handle |-> 0, egress_handle |-> 0,
     clean0 |-> FALSE, was_added |-> FALSE,
     ns |-> HOST]   \* the namespace the calling task's thread is a member of

IdleThr == [pc |-> "none", ns |-> HOST, result |-> "Pending", veth2_idx |-> 0, tap_idx |-> 0,
            spec |-> NoSpec]

ThreadRunning == thr.pc \notin {"none", "exited"}

\* the operation returns err from the sub-operation it is at
Fail(err) == op' = [op EXCEPT !.pc = "done", !.result = err, !.failed_at = op.pc]

Goto(pc) == op' = [op EXCEPT !.pc = pc]

\* a transport-level failure of the current sub-operation: nothing is committed
Fault(err) ==
    /\ nfaults < MaxFaults
    /\ nfaults' = nfaults + 1
    /\ Fail(err)
    /\ UNCHANGED <<netns, links, routes, nft, thr, chan, batches, prev, host0, added, nops>>

AtAdd(pc) == op.handler = "add" /\ op.pc = pc

AtDelete(pc) == op.handler = "delete" /\ op.pc = pc

AtCheck(pc) == op.handler = "check" /\ op.pc = pc

Init ==
    /\ netns = {}
    /\ links = {}
    /\ routes = {}
    /\ nft = [n \in AllNs |-> <<>>]
    /\ op = IdleOp
    /\ thr = IdleThr
    /\ chan = "none"
    /\ batches = <<>>
    /\ prev = [kind |-> "none", spec |-> [netns_name |-> "none"], ok |-> FALSE, clean0 |-> FALSE]
    /\ host0 = [netns |-> {}, links |-> {}, routes |-> {}, nft |-> [n \in AllNs |-> <<>>]]
    /\ added = {}
    /\ nops = 0
    /\ nfaults = 0

(* ------------------------------------------------------------------ *)
(* What a spec owns on the host                                       *)
(* ------------------------------------------------------------------ *)

OuterRules(rs, table, chain, expr) ==
    {o \in SeqToSet(rs) : o.kind = "rule" /\ o.table = table /\ o.chain = chain /\ o.expr = expr}

MasqRules(h, s) == OuterRules(h.nft[HOST], NFT_TABLE, NFT_POSTROUTING_CHAIN, outer_masq_expr(s))

IngressRules(h, s) ==
    OuterRules(h.nft[HOST], NFT_TABLE, NFT_FILTER_CHAIN, outer_ingress_forward_expr(s))

EgressRules(h, s) ==
    OuterRules(h.nft[HOST], NFT_TABLE, NFT_FILTER_CHAIN, outer_egress_forward_expr(s))

\* rules of NFT_TABLE, in any chain, whose expression is one of the spec's three
AttributableRules(h, s) ==
    {o \in SeqToSet(h.nft[HOST]) :
        /\ o.kind = "rule" /\ o.table = NFT_TABLE
        /\ o.expr \in {outer_masq_expr(s), outer_ingress_forward_expr(s),
                       outer_egress_forward_expr(s)}}

ForwardRoutes(h, s) ==
    {r \in h.routes : r.ns = HOST /\ r.dst = s.forwarded_guest_ip}

VethLinks(h, s) ==
    {l \in h.links : l.name \in {s.veth1_name, s.veth2_name} /\ l.ns \in {HOST, s.netns_name}}

\* the host holds none of the spec's resources
Clean(h, s) ==
    /\ s.netns_name \notin h.netns
    /\ VethLinks(h, s) = {}
    /\ AttributableRules(h, s) = {}
    /\ ForwardRoutes(h, s) = {}

(* ------------------------------------------------------------------ *)
(* run: an operation is invoked on a spec                             *)
(* ------------------------------------------------------------------ *)

NoPrev == [kind |-> "none", spec |-> NoSpec, ok |-> FALSE, clean0 |-> FALSE]

\* what is remembered of an operation once the next one is invoked: of an Add, whether
\* it returned success and whether the host held none of its spec's resources before
Summary(o) ==
    IF o.kind = "Add"
    THEN [kind |-> o.kind, spec |-> o.spec, ok |-> (o.result = "Ok"), clean0 |-> o.clean0]
    ELSE NoPrev

\* mutant: Check is dispatched to delete
Dispatch_CheckAsDelete(kind) ==
    CASE kind = "Add" -> "add"
      [] kind = "Check" -> "delete"
      [] kind = "Delete" -> "delete"

\* match operation { Add => add, Check => check, Delete => delete }
Dispatch(kind) ==
    CASE kind = "Add" -> "add"
      [] kind = "Check" -> "check"
      [] kind = "Delete" -> "delete"

FirstPc(handler) ==
    CASE handler = "add" -> "add_veth"
      [] handler = "check" -> "netns_open"
      [] handler = "delete" -> "netns_get"

run(kind, s) ==
    /\ op.pc = "done"
    /\ ~ThreadRunning
    /\ kind # "Check" => nops < MaxOps
    /\ op' = [IdleOp EXCEPT !.kind = kind, !.handler = Dispatch(kind), !.spec = s,
                            !.pc = FirstPc(Dispatch(kind)),
                            !.result = "Pending", !.clean0 = Clean(HostRec, s),
                            !.was_added = (s \in added)]
    /\ prev' = Summary(op)
    /\ host0' = HostRec
    /\ batches' = <<>>
    /\ thr' = IdleThr
    /\ chan' = "none"
    /\ added' = IF kind = "Delete" THEN added \ {s} ELSE added
    /\ nops' = IF kind = "Check" THEN nops ELSE nops + 1
    /\ UNCHANGED <<netns, links, routes, nft, nfaults>>

(* ------------------------------------------------------------------ *)
(* add.rs: setup_outer_interfaces                                     *)
(* ------------------------------------------------------------------ *)

Frame == UNCHANGED <<thr, chan, batches, prev, host0, added, nops, nfaults>>

\* mutant: the error of the veth creation is dropped and Add goes on
AddVeth_ErrorIgnored ==
    /\ AtAdd("add_veth")
    /\ IF \/ LinksNamed(links, HOST, op.spec.veth1_name) # {}
          \/ LinksNamed(links, HOST, op.spec.veth2_name) # {}
       THEN Goto("veth1_index") /\ UNCHANGED links
       ELSE LET i1 == FreshIdx(links)
                l1 == NewLink(i1, op.spec.veth1_name, HOST, "veth", 0, FALSE)
                i2 == FreshIdx(links \cup {l1})
            IN  /\ links' = links \cup
                      { [l1 EXCEPT !.peer = i2],
                        NewLink(i2, op.spec.veth2_name, HOST, "veth", i1, FALSE) }
                /\ Goto("veth1_index")
    /\ UNCHANGED <<netns, routes, nft>>
    /\ Frame

\* mutant: the namespace is created before the veth pair
AddVeth_NamespaceFirst ==
    /\ AtAdd("add_veth")
    /\ \/ Fault("NetlinkOperationError")
       \/ /\ netns' = netns \cup {op.spec.netns_name}
          /\ IF \/ LinksNamed(links, HOST, op.spec.veth1_name) # {}
                \/ LinksNamed(links, HOST, op.spec.veth2_name) # {}
             THEN Fail("NetlinkOperationError") /\ UNCHANGED links
             ELSE LET i1 == FreshIdx(links)
                      l1 == NewLink(i1, op.spec.veth1_name, HOST, "veth", 0, FALSE)
                      i2 == FreshIdx(links \cup {l1})
                  IN  /\ links' = links \cup
                            { [l1 EXCEPT !.peer = i2],
                              NewLink(i2, op.spec.veth2_name, HOST, "veth", i1, FALSE) }
                      /\ Goto("veth1_index")
          /\ UNCHANGED <<routes, nft>>
          /\ Frame

\* link add veth1 peer veth2, both in the caller's namespace
AddVeth ==
    /\ AtAdd("add_veth")
    /\ \/ Fault("NetlinkOperationError")
       \/ /\ IF \/ LinksNamed(links, HOST, op.spec.veth1_name) # {}
                \/ LinksNamed(links, HOST, op.spec.veth2_name) # {}
             THEN Fail("NetlinkOperationError") /\ UNCHANGED links
             ELSE LET i1 == FreshIdx(links)
                      l1 == NewLink(i1, op.spec.veth1_name, HOST, "veth", 0, FALSE)
                      i2 == FreshIdx(links \cup {l1})
                  IN  /\ links' = links \cup
                            { [l1 EXCEPT !.peer = i2],
                              NewLink(i2, op.spec.veth2_name, HOST, "veth", i1, FALSE) }
                      /\ Goto("veth1_index")
          /\ UNCHANGED <<netns, routes, nft>>
          /\ Frame

\* get_link_index(veth1_name)
AddVeth1Index ==
    /\ AtAdd("veth1_index")
    /\ \/ Fault("NetlinkOperationError")
       \/ /\ IF LinksNamed(links, HOST, op.spec.veth1_name) = {}
             THEN Fail("ObjectNotFound:IpLink")
             ELSE op' = [op EXCEPT
                     !.veth1_idx = (CHOOSE l \in LinksNamed(links, HOST, op.spec.veth1_name) : TRUE).idx,
                     !.pc = "veth1_addr"]
          /\ UNCHANGED <<netns, links, routes, nft>>
          /\ Frame

\* an address add is accepted when the link is there and does not carry the address
AddrAccepted(ls, ns, idx, inet) ==
    \E l \in LinkByIdx(ls, ns, idx) : inet \notin l.addrs

AddrAdded(ls, ns, idx, inet) ==
    {IF l.ns = ns /\ l.idx = idx THEN [l EXCEPT !.addrs = @ \cup {inet}] ELSE l : l \in ls}

LinkSetUp(ls, ns, idx) ==
    {IF l.ns = ns /\ l.idx = idx THEN [l EXCEPT !.up = TRUE] ELSE l : l \in ls}

\* address add veth1_ip on veth1
AddVeth1Addr ==
    /\ AtAdd("veth1_addr")
    /\ \/ Fault("NetlinkOperationError")
       \/ /\ IF AddrAccepted(links, HOST, op.veth1_idx, op.spec.veth1_ip)
             THEN /\ links' = AddrAdded(links, HOST, op.veth1_idx, op.spec.veth1_ip)
                  /\ Goto("veth1_up")
             ELSE Fail("NetlinkOperationError") /\ UNCHANGED links
          /\ UNCHANGED <<netns, routes, nft>>
          /\ Frame

\* link set veth1 up
AddVeth1Up ==
    /\ AtAdd("veth1_up")
    /\ \/ Fault("NetlinkOperationError")
       \/ /\ IF LinkByIdx(links, HOST, op.veth1_idx) # {}
             THEN /\ links' = LinkSetUp(links, HOST, op.veth1_idx)
                  /\ Goto("veth2_index")
             ELSE Fail("NetlinkOperationError") /\ UNCHANGED links
          /\ UNCHANGED <<netns, routes, nft>>
          /\ Frame

\* get_link_index(veth2_name), in the caller's namespace
AddVeth2Index ==
    /\ AtAdd("veth2_index")
    /\ \/ Fault("NetlinkOperationError")
       \/ /\ IF LinksNamed(links, HOST, op.spec.veth2_name) = {}
             THEN Fail("ObjectNotFound:IpLink")
             ELSE op' = [op EXCEPT
                     !.veth2_idx = (CHOOSE l \in LinksNamed(links, HOST, op.spec.veth2_name) : TRUE).idx,
                     !.pc = "netns_new"]
          /\ UNCHANGED <<netns, links, routes, nft>>
          /\ Frame

\* NetNs::new: the namespace is created, or opened when it exists
NetNsNew(nss, name) == nss \cup {name}

AddNetnsNew ==
    /\ AtAdd("netns_new")
    /\ \/ Fault("NetnsError")
       \/ /\ netns' = NetNsNew(netns, op.spec.netns_name)
          /\ Goto("veth2_setns")
          /\ UNCHANGED <<links, routes, nft>>
          /\ Frame

\* a link moves when it is there and the target holds no link of its name
MoveAccepted(ls, idx, target) ==
    \E l \in LinkByIdx(ls, HOST, idx) : LinksNamed(ls, target, l.name) = {}

\* a moved link arrives down and without addresses
LinkMoved(ls, idx, target) ==
    {IF l.ns = HOST /\ l.idx = idx
     THEN [l EXCEPT !.ns = target, !.up = FALSE, !.addrs = {}] ELSE l : l \in ls}

\* link set veth2 netns <fd>
AddVeth2Setns ==
    /\ AtAdd("veth2_setns")
    /\ \/ Fault("NetlinkOperationError")
       \/ /\ IF MoveAccepted(links, op.veth2_idx, op.spec.netns_name)
             THEN /\ links' = LinkMoved(links, op.veth2_idx, op.spec.netns_name)
                  /\ Goto("netns_get")
             ELSE Fail("NetlinkOperationError") /\ UNCHANGED links
          /\ UNCHANGED <<netns, routes, nft>>
          /\ Frame

(* ------------------------------------------------------------------ *)
(* mod.rs: use_netns_in_thread                                        *)
(* ------------------------------------------------------------------ *)

\* NetNs::get: a handle on an existing namespace
NetNsGetOk(nss, name) == name \in nss

\* mutant: the caller enters the namespace it has just opened, on its own thread
AddNetnsGet_EntersOnCaller ==
    /\ AtAdd("netns_get")
    /\ IF NetNsGetOk(netns, op.spec.netns_name)
       THEN op' = [op EXCEPT !.pc = "spawn", !.ns = op.spec.netns_name]
       ELSE Fail("NetnsError")
    /\ UNCHANGED <<netns, links, routes, nft>>
    /\ Frame

AddNetnsGet ==
    /\ AtAdd("netns_get")
    /\ \/ Fault("NetnsError")
       \/ /\ IF NetNsGetOk(netns, op.spec.netns_name)
             THEN Goto("spawn")
             ELSE Fail("NetnsError")
          /\ UNCHANGED <<netns, links, routes, nft>>
          /\ Frame

\* mutant: the thread is spawned and Add goes on to the outer rules without awaiting it
AddSpawn_NotAwaited ==
    /\ AtAdd("spawn")
    /\ chan' = "open"
    /\ thr' = [IdleThr EXCEPT !.pc = "enter", !.ns = HOST, !.spec = op.spec]
    /\ Goto("outer_get_ruleset")
    /\ UNCHANGED <<netns, links, routes, nft, batches, prev, host0, added, nops, nfaults>>

\* the channel is made and the thread spawned; a thread starts in its parent's namespace
AddSpawn ==
    /\ AtAdd("spawn")
    /\ chan' = "open"
    /\ thr' = [IdleThr EXCEPT !.pc = "enter", !.ns = HOST, !.spec = op.spec]
    /\ Goto("await_inner")
    /\ UNCHANGED <<netns, links, routes, nft, batches, prev, host0, added, nops, nfaults>>

\* mutant: the result received from the thread is dropped and Add goes on
AddAwaitInner_ErrorIgnored ==
    /\ AtAdd("await_inner")
    /\ chan = "sent"
    /\ Goto("outer_get_ruleset")
    /\ UNCHANGED <<netns, links, routes, nft>>
    /\ Frame

\* mutant: a channel closed without a result is taken for the success of the block
AddAwaitInner_ClosedIsOk ==
    /\ AtAdd("await_inner")
    /\ chan \in {"sent", "closed"}
    /\ IF chan = "closed" \/ thr.result = "Ok"
       THEN Goto("outer_get_ruleset")
       ELSE Fail(thr.result)
    /\ UNCHANGED <<netns, links, routes, nft>>
    /\ Frame

\* receiver.await: the result the thread sent is the result of the block; a sender
\* dropped without a send makes it ChannelCancelError
AddAwaitInner ==
    /\ AtAdd("await_inner")
    /\ chan \in {"sent", "closed"}
    /\ IF chan = "closed" THEN Fail("ChannelCancelError")
       ELSE IF thr.result = "Ok" THEN Goto("outer_get_ruleset") ELSE Fail(thr.result)
    /\ UNCHANGED <<netns, links, routes, nft>>
    /\ Frame

ThrFrame == UNCHANGED <<op, chan, batches, prev, host0, added, nops, nfaults>>

ThrAt(pc) == thr.pc = pc

ThrGoto(pc) == thr' = [thr EXCEPT !.pc = pc]

\* the block ends with err: the thread goes on to send it
ThrFail(err) == thr' = [thr EXCEPT !.pc = "send", !.result = err]

ThrFault(err) ==
    /\ nfaults < MaxFaults
    /\ nfaults' = nfaults + 1
    /\ ThrFail(err)
    /\ UNCHANGED <<netns, links, routes, nft, op, chan, batches, prev, host0, added, nops>>

\* netns.enter(): the thread becomes a member of the namespace
ThrEnter ==
    /\ ThrAt("enter")
    /\ \/ ThrFault("NetnsError")
       \/ /\ thr' = [thr EXCEPT !.ns = thr.spec.netns_name, !.pc = "tap_build"]
          /\ UNCHANGED <<netns, links, routes, nft>>
          /\ ThrFrame

\* let _ = sender.send(result): a dropped receiver is ignored; the thread ends
\* mutant: the result of send is unwrapped, so a dropped receiver panics the thread
ThrSend_Unwrapped ==
    /\ ThrAt("send")
    /\ chan' = IF chan = "open" THEN "sent" ELSE chan
    /\ thr' = [thr EXCEPT !.pc = "exited",
                          !.result = IF chan = "open" THEN thr.result ELSE "Panicked"]
    /\ UNCHANGED <<netns, links, routes, nft, op, batches, prev, host0, added, nops, nfaults>>

ThrSend ==
    /\ ThrAt("send")
    /\ chan' = IF chan = "open" THEN "sent" ELSE chan
    /\ ThrGoto("exited")
    /\ UNCHANGED <<netns, links, routes, nft, op, batches, prev, host0, added, nops, nfaults>>

\* the thread dies inside block_on (a panic): the sender is dropped with nothing sent
ThrDie ==
    /\ thr.pc \notin {"none", "send", "exited"}
    /\ nfaults < MaxFaults
    /\ nfaults' = nfaults + 1
    /\ thr' = [thr EXCEPT !.pc = "exited"]
    /\ chan' = IF chan = "open" THEN "closed" ELSE chan
    /\ UNCHANGED <<netns, links, routes, nft, op, batches, prev, host0, added, nops>>

\* the caller drops the future of Add while it awaits the thread, which is not stopped
\* (dropped at another await, Add leaves the host as a failure of the awaited call does)
AddCancel ==
    /\ AtAdd("await_inner")
    /\ nfaults < MaxFaults
    /\ nfaults' = nfaults + 1
    /\ Fail("Cancelled")
    /\ chan' = IF chan = "open" THEN "dropped" ELSE chan
    /\ UNCHANGED <<netns, links, routes, nft, thr, batches, prev, host0, added, nops>>

(* ------------------------------------------------------------------ *)
(* add.rs: setup_inner_interfaces (on the thread, in its namespace)   *)
(* ------------------------------------------------------------------ *)

\* TunBuilder ... tap().persist().up(): an existing tap of the name is attached to
TapAccepted(ls, ns, name) == \A l \in LinksNamed(ls, ns, name) : l.kind = "tap"

TapBuilt(ls, ns, name) ==
    IF LinksNamed(ls, ns, name) # {}
    THEN {IF l.ns = ns /\ l.name = name THEN [l EXCEPT !.up = TRUE] ELSE l : l \in ls}
    ELSE ls \cup {NewLink(FreshIdx(ls), name, ns, "tap", 0, TRUE)}

ThrTapBuild ==
    /\ ThrAt("tap_build")
    /\ \/ ThrFault("TapDeviceError")
       \/ /\ IF TapAccepted(links, thr.ns, thr.spec.tap_name)
             THEN /\ links' = TapBuilt(links, thr.ns, thr.spec.tap_name)
                  /\ ThrGoto("new_connection")
             ELSE ThrFail("TapDeviceError") /\ UNCHANGED links
          /\ UNCHANGED <<netns, routes, nft>>
          /\ ThrFrame

\* rtnetlink::new_connection(): a socket bound to the thread's namespace
ThrNewConnection ==
    /\ ThrAt("new_connection")
    /\ \/ ThrFault("IoError")
       \/ /\ ThrGoto("veth2_index")
          /\ UNCHANGED <<netns, links, routes, nft>>
          /\ ThrFrame

ThrVeth2Index ==
    /\ ThrAt("veth2_index")
    /\ \/ ThrFault("NetlinkOperationError")
       \/ /\ IF LinksNamed(links, thr.ns, thr.spec.veth2_name) = {}
             THEN ThrFail("ObjectNotFound:IpLink")
             ELSE thr' = [thr EXCEPT
                     !.veth2_idx = (CHOOSE l \in LinksNamed(links, thr.ns, thr.spec.veth2_name) : TRUE).idx,
                     !.pc = "veth2_addr"]
          /\ UNCHANGED <<netns, links, routes, nft>>
          /\ ThrFrame

ThrVeth2Addr ==
    /\ ThrAt("veth2_addr")
    /\ \/ ThrFault("NetlinkOperationError")
       \/ /\ IF AddrAccepted(links, thr.ns, thr.veth2_idx, thr.spec.veth2_ip)
             THEN /\ links' = AddrAdded(links, thr.ns, thr.veth2_idx, thr.spec.veth2_ip)
                  /\ ThrGoto("veth2_up")
             ELSE ThrFail("NetlinkOperationError") /\ UNCHANGED links
          /\ UNCHANGED <<netns, routes, nft>>
          /\ ThrFrame

ThrVeth2Up ==
    /\ ThrAt("veth2_up")
    /\ \/ ThrFault("NetlinkOperationError")
       \/ /\ IF LinkByIdx(links, thr.ns, thr.veth2_idx) # {}
             THEN /\ links' = LinkSetUp(links, thr.ns, thr.veth2_idx)
                  /\ ThrGoto("default_route")
             ELSE ThrFail("NetlinkOperationError") /\ UNCHANGED links
          /\ UNCHANGED <<netns, routes, nft>>
          /\ ThrFrame

DefaultDst(fam) == [fam |-> fam, net |-> "", s |-> "default"]

\* route add default via veth1_ip, of veth1_ip's family
ThrDefaultRoute ==
    /\ ThrAt("default_route")
    /\ \/ ThrFault("NetlinkOperationError")
       \/ /\ LET gw == thr.spec.veth1_ip.address
                 dst == DefaultDst(gw.fam)
             IN  IF RouteAccepted(links, routes, thr.ns, dst, 0, gw)
                 THEN /\ routes' = RouteAdded(links, routes, thr.ns, dst, 0, gw)
                      /\ ThrGoto("tap_index")
                 ELSE ThrFail("NetlinkOperationError") /\ UNCHANGED routes
          /\ UNCHANGED <<netns, links, nft>>
          /\ ThrFrame

ThrTapIndex ==
    /\ ThrAt("tap_index")
    /\ \/ ThrFault("NetlinkOperationError")
       \/ /\ IF LinksNamed(links, thr.ns, thr.spec.tap_name) = {}
             THEN ThrFail("ObjectNotFound:IpLink")
             ELSE thr' = [thr EXCEPT
                     !.tap_idx = (CHOOSE l \in LinksNamed(links, thr.ns, thr.spec.tap_name) : TRUE).idx,
                     !.pc = "tap_addr"]
          /\ UNCHANGED <<netns, links, routes, nft>>
          /\ ThrFrame

ThrTapAddr ==
    /\ ThrAt("tap_addr")
    /\ \/ ThrFault("NetlinkOperationError")
       \/ /\ IF AddrAccepted(links, thr.ns, thr.tap_idx, thr.spec.tap_ip)
             THEN /\ links' = AddrAdded(links, thr.ns, thr.tap_idx, thr.spec.tap_ip)
                  /\ ThrGoto("tap_up")
             ELSE ThrFail("NetlinkOperationError") /\ UNCHANGED links
          /\ UNCHANGED <<netns, routes, nft>>
          /\ ThrFrame

ThrTapUp ==
    /\ ThrAt("tap_up")
    /\ \/ ThrFault("NetlinkOperationError")
       \/ /\ IF LinkByIdx(links, thr.ns, thr.tap_idx) # {}
             THEN /\ links' = LinkSetUp(links, thr.ns, thr.tap_idx)
                  /\ ThrGoto("inner_apply")
             ELSE ThrFail("NetlinkOperationError") /\ UNCHANGED links
          /\ UNCHANGED <<netns, routes, nft>>
          /\ ThrFrame

(* ------------------------------------------------------------------ *)
(* add.rs: setup_inner_nf_rules                                       *)
(* ------------------------------------------------------------------ *)

Applied(ns, batch, committed) == [ns |-> ns, batch |-> batch, committed |-> committed]

\* mutant: the prerouting chain is added after the DNAT rule that goes into it
InnerBatch_ChainAfterRule(network) ==
    LET fam == nf_family(network)
        fwd == network.forwarded_guest_ip # NoAddr
    IN  << BatchAdd(NfTable(fam, NFT_TABLE)),
           BatchAdd(NfChain(fam, NFT_TABLE, NFT_POSTROUTING_CHAIN, "postrouting")) >>
        \o << BatchAdd(NfRule(fam, NFT_TABLE, NFT_POSTROUTING_CHAIN, inner_snat_expr(network), 0)) >>
        \o (IF fwd THEN << BatchAdd(NfRule(fam, NFT_TABLE, NFT_PREROUTING_CHAIN,
                                           inner_dnat_expr(network), 0)),
                           BatchAdd(NfChain(fam, NFT_TABLE, NFT_PREROUTING_CHAIN, "prerouting")) >>
            ELSE <<>>)

InnerBatch(network) ==
    LET fam == nf_family(network)
        fwd == network.forwarded_guest_ip # NoAddr
    IN  << BatchAdd(NfTable(fam, NFT_TABLE)),
           BatchAdd(NfChain(fam, NFT_TABLE, NFT_POSTROUTING_CHAIN, "postrouting")) >>
        \o (IF fwd THEN << BatchAdd(NfChain(fam, NFT_TABLE, NFT_PREROUTING_CHAIN, "prerouting")) >>
            ELSE <<>>)
        \o << BatchAdd(NfRule(fam, NFT_TABLE, NFT_POSTROUTING_CHAIN, inner_snat_expr(network), 0)) >>
        \o (IF fwd THEN << BatchAdd(NfRule(fam, NFT_TABLE, NFT_PREROUTING_CHAIN,
                                           inner_dnat_expr(network), 0)) >>
            ELSE <<>>)

\* apply_ruleset, run on the thread: the batch goes to the thread's namespace
ThrInnerApply ==
    /\ ThrAt("inner_apply")
    /\ LET batch == InnerBatch(thr.spec)
       IN  \/ /\ nfaults < MaxFaults
              /\ nfaults' = nfaults + 1
              /\ ThrFail("NftablesError")
              /\ batches' = Append(batches, Applied(thr.ns, batch, FALSE))
              /\ UNCHANGED nft
           \/ /\ IF BatchAccepted(nft[thr.ns], batch)
                 THEN /\ nft' = [nft EXCEPT ![thr.ns] = ApplyBatch(nft[thr.ns], batch)]
                      /\ thr' = [thr EXCEPT !.pc = "send", !.result = "Ok"]
                      /\ batches' = Append(batches, Applied(thr.ns, batch, TRUE))
                 ELSE /\ ThrFail("NftablesError")
                      /\ batches' = Append(batches, Applied(thr.ns, batch, FALSE))
                      /\ UNCHANGED nft
              /\ UNCHANGED nfaults
    /\ UNCHANGED <<netns, links, routes, op, chan, prev, host0, added, nops>>

(* ------------------------------------------------------------------ *)
(* util.rs: the base chains                                           *)
(* ------------------------------------------------------------------ *)

table_exists(network, rs) ==
    \E o \in SeqToSet(rs) :
        o.kind = "table" /\ o.table = NFT_TABLE /\ o.family = nf_family(network)

\* mutant: the postrouting chain is looked for under the prerouting chain's name
postrouting_chain_exists_WrongName(rs) ==
    \E o \in SeqToSet(rs) :
        o.kind = "chain" /\ o.chain = NFT_PREROUTING_CHAIN /\ o.table = NFT_TABLE

\* add_base_chains_if_needed: a chain counts as present by its name and its table's name
postrouting_chain_exists(rs) ==
    \E o \in SeqToSet(rs) :
        o.kind = "chain" /\ o.chain = NFT_POSTROUTING_CHAIN /\ o.table = NFT_TABLE

filter_chain_exists(rs) ==
    \E o \in SeqToSet(rs) :
        o.kind = "chain" /\ o.chain = NFT_FILTER_CHAIN /\ o.table = NFT_TABLE

add_base_chains_if_needed(network, rs) ==
    LET fam == nf_family(network)
    IN  (IF ~table_exists(network, rs) THEN << BatchAdd(NfTable(fam, NFT_TABLE)) >> ELSE <<>>)
        \o (IF ~postrouting_chain_exists(rs)
            THEN << BatchAdd(NfChain(fam, NFT_TABLE, NFT_POSTROUTING_CHAIN, "postrouting")) >>
            ELSE <<>>)
        \o (IF ~filter_chain_exists(rs)
            THEN << BatchAdd(NfChain(fam, NFT_TABLE, NFT_FILTER_CHAIN, "forward")) >>
            ELSE <<>>)

\* check_base_chains: its own loop; a chain is looked at when its table's name is
\* NFT_TABLE, and then told apart by its name
check_table_exists(network, rs) ==
    \E o \in SeqToSet(rs) :
        o.kind = "table" /\ o.table = NFT_TABLE /\ o.family = nf_family(network)

check_postrouting_chain_exists(rs) ==
    \E o \in SeqToSet(rs) :
        o.kind = "chain" /\ o.table = NFT_TABLE /\ o.chain = NFT_POSTROUTING_CHAIN

check_filter_chain_exists(rs) ==
    \E o \in SeqToSet(rs) :
        /\ o.kind = "chain" /\ o.table = NFT_TABLE
        /\ o.chain # NFT_POSTROUTING_CHAIN /\ o.chain = NFT_FILTER_CHAIN

\* mutant: the filter chain is looked for before the postrouting chain
check_base_chains_FilterFirst(network, rs) ==
    IF ~check_table_exists(network, rs) THEN "ObjectNotFound:NfTable"
    ELSE IF ~check_filter_chain_exists(rs) THEN "ObjectNotFound:NfFilterChain"
    ELSE IF ~check_postrouting_chain_exists(rs) THEN "ObjectNotFound:NfPostroutingChain"
    ELSE "Ok"

check_base_chains(network, rs) ==
    IF ~check_table_exists(network, rs) THEN "ObjectNotFound:NfTable"
    ELSE IF ~check_postrouting_chain_exists(rs) THEN "ObjectNotFound:NfPostroutingChain"
    ELSE IF ~check_filter_chain_exists(rs) THEN "ObjectNotFound:NfFilterChain"
    ELSE "Ok"

(* ------------------------------------------------------------------ *)
(* add.rs: setup_outer_nf_rules, setup_outer_forward_route            *)
(* ------------------------------------------------------------------ *)

\* mutant: the ingress-forward rule is appended to the postrouting chain
OuterRuleEntries_IngressMisplaced(network) ==
    LET fam == nf_family(network)
    IN  << BatchAdd(NfRule(fam, NFT_TABLE, NFT_POSTROUTING_CHAIN, outer_masq_expr(network), 0)),
           BatchAdd(NfRule(fam, NFT_TABLE, NFT_POSTROUTING_CHAIN, outer_ingress_forward_expr(network), 0)),
           BatchAdd(NfRule(fam, NFT_TABLE, NFT_FILTER_CHAIN, outer_egress_forward_expr(network), 0)) >>

OuterRuleEntries(network) ==
    LET fam == nf_family(network)
    IN  << BatchAdd(NfRule(fam, NFT_TABLE, NFT_POSTROUTING_CHAIN, outer_masq_expr(network), 0)),
           BatchAdd(NfRule(fam, NFT_TABLE, NFT_FILTER_CHAIN, outer_ingress_forward_expr(network), 0)),
           BatchAdd(NfRule(fam, NFT_TABLE, NFT_FILTER_CHAIN, outer_egress_forward_expr(network), 0)) >>

OuterBatch(network, rs) == add_base_chains_if_needed(network, rs) \o OuterRuleEntries(network)

\* get_current_ruleset
AddOuterGetRuleset ==
    /\ AtAdd("outer_get_ruleset")
    /\ \/ Fault("NftablesError")
       \/ /\ op' = [op EXCEPT !.ruleset = nft[HOST], !.pc = "outer_apply"]
          /\ UNCHANGED <<netns, links, routes, nft>>
          /\ Frame

\* mutant: the masquerade rule is applied in a batch of its own, ahead of the two forward rules
AddOuterApply_MasqFirst ==
    /\ AtAdd("outer_apply")
    /\ LET base == add_base_chains_if_needed(op.spec, op.ruleset)
           first == base \o << OuterRuleEntries(op.spec)[1] >>
           rest == SubSeq(OuterRuleEntries(op.spec), 2, 3)
       IN  IF BatchAccepted(nft[HOST], first)
           THEN \/ /\ nfaults < MaxFaults
                   /\ nfaults' = nfaults + 1
                   /\ nft' = [nft EXCEPT ![HOST] = ApplyBatch(nft[HOST], first)]
                   /\ Fail("NftablesError")
                   /\ batches' = batches \o << Applied(HOST, first, TRUE), Applied(HOST, rest, FALSE) >>
                \/ /\ nft' = [nft EXCEPT ![HOST] = ApplyBatch(ApplyBatch(nft[HOST], first), rest)]
                   /\ Goto("forward_route")
                   /\ batches' = batches \o << Applied(HOST, first, TRUE), Applied(HOST, rest, TRUE) >>
                   /\ UNCHANGED nfaults
           ELSE /\ Fail("NftablesError")
                /\ batches' = Append(batches, Applied(HOST, first, FALSE))
                /\ UNCHANGED <<nft, nfaults>>
    /\ UNCHANGED <<netns, links, routes, thr, chan, prev, host0, added, nops>>

\* apply_ruleset of the base chains that are missing and the three rules
AddOuterApply ==
    /\ AtAdd("outer_apply")
    /\ LET batch == OuterBatch(op.spec, op.ruleset)
       IN  \/ /\ nfaults < MaxFaults
              /\ nfaults' = nfaults + 1
              /\ Fail("NftablesError")
              /\ batches' = Append(batches, Applied(HOST, batch, FALSE))
              /\ UNCHANGED nft
           \/ /\ IF BatchAccepted(nft[HOST], batch)
                 THEN /\ nft' = [nft EXCEPT ![HOST] = ApplyBatch(nft[HOST], batch)]
                      /\ Goto("forward_route")
                      /\ batches' = Append(batches, Applied(HOST, batch, TRUE))
                 ELSE /\ Fail("NftablesError")
                      /\ batches' = Append(batches, Applied(HOST, batch, FALSE))
                      /\ UNCHANGED nft
              /\ UNCHANGED nfaults
    /\ UNCHANGED <<netns, links, routes, thr, chan, prev, host0, added, nops>>

\* mutant: the prefix length of a V6 destination is that of a V4 host
HostPrefix_AlwaysV4(addr) == 32

HostPrefix(addr) == IF addr.fam = "V4" THEN 32 ELSE 128

Return(result) == op' = [op EXCEPT !.pc = "done", !.result = result]

\* the family of the forwarded guest ip decides the call; veth2_ip must be of that family
RouteCallMade(network) ==
    /\ network.forwarded_guest_ip # NoAddr
    /\ network.forwarded_guest_ip.fam = network.veth2_ip.address.fam

AddForwardRoute ==
    /\ AtAdd("forward_route")
    /\ \/ /\ RouteCallMade(op.spec)
          /\ Fault("NetlinkOperationError")
       \/ /\ LET fwd == op.spec.forwarded_guest_ip
                 gw == op.spec.veth2_ip.address
             IN  IF fwd = NoAddr THEN Return("Ok") /\ UNCHANGED routes
                 ELSE IF fwd.fam # gw.fam
                      THEN Fail("ForbiddenDualStackInRoute") /\ UNCHANGED routes
                 ELSE IF RouteAccepted(links, routes, HOST, fwd, HostPrefix(fwd), gw)
                      THEN /\ routes' = RouteAdded(links, routes, HOST, fwd, HostPrefix(fwd), gw)
                           /\ Return("Ok")
                 ELSE Fail("NetlinkOperationError") /\ UNCHANGED routes
          /\ added' = IF op'.result = "Ok" THEN added \cup {op.spec} ELSE added
          /\ UNCHANGED <<netns, links, nft>>
          /\ UNCHANGED <<thr, chan, batches, prev, host0, nops, nfaults>>

(* ------------------------------------------------------------------ *)
(* delete.rs: delete                                                  *)
(* ------------------------------------------------------------------ *)

\* mutant: a missing namespace is passed over and Delete goes on to the ruleset
DeleteNetnsGet_MissingIgnored ==
    /\ AtDelete("netns_get")
    /\ \/ Fault("NetnsError")
       \/ /\ IF NetNsGetOk(netns, op.spec.netns_name)
             THEN Goto("netns_remove")
             ELSE Goto("get_ruleset")
          /\ UNCHANGED <<netns, links, routes, nft>>
          /\ Frame

DeleteNetnsGet ==
    /\ AtDelete("netns_get")
    /\ \/ Fault("NetnsError")
       \/ /\ IF NetNsGetOk(netns, op.spec.netns_name)
             THEN Goto("netns_remove")
             ELSE Fail("NetnsError")
          /\ UNCHANGED <<netns, links, routes, nft>>
          /\ Frame

\* the links that go with a namespace: those in it and the veth peers of those
LinksGoneWith(ls, name) ==
    LET inside == {l \in ls : l.ns = name}
    IN  inside \cup {l \in ls : l.kind = "veth" /\ \E g \in inside : g.kind = "veth" /\ g.peer = l.idx}

\* NetNs::remove: the namespace goes, with its links, their peers, the routes over
\* those links, and its ruleset
NetNsRemoved(h, name) ==
    LET gone == LinksGoneWith(h.links, name)
    IN  [netns |-> h.netns \ {name},
         links |-> h.links \ gone,
         routes |-> {r \in h.routes :
                        r.ns # name /\ ~\E g \in gone : g.ns = r.ns /\ g.idx = r.dev},
         nft |-> [h.nft EXCEPT ![name] = <<>>]]

DeleteNetnsRemove ==
    /\ AtDelete("netns_remove")
    /\ \/ Fault("NetnsError")
       \/ /\ LET h == NetNsRemoved(HostRec, op.spec.netns_name)
             IN  /\ netns' = h.netns
                 /\ links' = h.links
                 /\ routes' = h.routes
                 /\ nft' = h.nft
          /\ Goto("get_ruleset")
          /\ Frame

DeleteGetRuleset ==
    /\ AtDelete("get_ruleset")
    /\ \/ Fault("NftablesError")
       \/ /\ op' = [op EXCEPT !.ruleset = nft[HOST], !.pc = "scan"]
          /\ UNCHANGED <<netns, links, routes, nft>>
          /\ Frame

NoHandles == [masq |-> 0, ingress |-> 0, egress |-> 0]

\* mutant: a rule is taken for the spec's by its chain alone, whatever its expression
ScanObject_AnyExpr(network, acc, o) ==
    IF o.kind = "rule" /\ o.table = NFT_TABLE
    THEN IF o.chain = NFT_POSTROUTING_CHAIN
         THEN [acc EXCEPT !.masq = o.handle]
         ELSE IF o.chain = NFT_FILTER_CHAIN
              THEN IF acc.ingress = 0
                   THEN [acc EXCEPT !.ingress = o.handle]
                   ELSE [acc EXCEPT !.egress = o.handle]
              ELSE acc
    ELSE acc

\* mutant: the scan rebuilds the egress-forward list with the statements in another order
ScanObject_EgressReordered(network, acc, o) ==
    IF o.kind = "rule" /\ o.table = NFT_TABLE
    THEN IF o.chain = NFT_POSTROUTING_CHAIN /\ o.expr = outer_masq_expr(network)
         THEN [acc EXCEPT !.masq = o.handle]
         ELSE IF o.chain = NFT_FILTER_CHAIN
              THEN IF o.expr = outer_ingress_forward_expr(network)
                   THEN [acc EXCEPT !.ingress = o.handle]
                   ELSE IF o.expr = << outer_egress_forward_expr(network)[2],
                                       outer_egress_forward_expr(network)[1],
                                       outer_egress_forward_expr(network)[3] >>
                        THEN [acc EXCEPT !.egress = o.handle]
                        ELSE acc
              ELSE acc
    ELSE acc

\* the body of the loop over the fetched objects
ScanObject(network, acc, o) ==
    IF o.kind = "rule" /\ o.table = NFT_TABLE
    THEN IF o.chain = NFT_POSTROUTING_CHAIN /\ o.expr = outer_masq_expr(network)
         THEN [acc EXCEPT !.masq = o.handle]
         ELSE IF o.chain = NFT_FILTER_CHAIN
              THEN IF o.expr = outer_ingress_forward_expr(network)
                   THEN [acc EXCEPT !.ingress = o.handle]
                   ELSE IF o.expr = outer_egress_forward_expr(network)
                        THEN [acc EXCEPT !.egress = o.handle]
                        ELSE acc
              ELSE acc
    ELSE acc

RECURSIVE ScanRuleset(_, _, _)
ScanRuleset(network, acc, rs) ==
    IF rs = <<>> THEN acc
    ELSE ScanRuleset(network, ScanObject(network, acc, Head(rs)), Tail(rs))

\* mutant: the ingress-forward handle is checked before the masquerade handle
FirstMissing_IngressFirst(h) ==
    IF h.ingress = 0 THEN "ObjectNotFound:NfIngressForwardRule"
    ELSE IF h.masq = 0 THEN "ObjectNotFound:NfMasqueradeRule"
    ELSE IF h.egress = 0 THEN "ObjectNotFound:NfEgressForwardRule"
    ELSE "Ok"

\* the first handle that is None, in the order of the three checks
FirstMissing(h) ==
    IF h.masq = 0 THEN "ObjectNotFound:NfMasqueradeRule"
    ELSE IF h.ingress = 0 THEN "ObjectNotFound:NfIngressForwardRule"
    ELSE IF h.egress = 0 THEN "ObjectNotFound:NfEgressForwardRule"
    ELSE "Ok"

DeleteScan ==
    /\ AtDelete("scan")
    /\ LET h == ScanRuleset(op.spec, NoHandles, op.ruleset)
       IN  IF FirstMissing(h) # "Ok" THEN Fail(FirstMissing(h))
           ELSE op' = [op EXCEPT !.masq_handle = h.masq, !.ingress_handle = h.ingress,
                                 !.egress_handle = h.egress, !.pc = "apply"]
    /\ UNCHANGED <<netns, links, routes, nft>>
    /\ Frame

\* mutant: the delete batch leaves out the egress-forward rule
DeleteBatch_NoEgress(network, masq, ingress, egress) ==
    LET fam == nf_family(network)
    IN  << BatchDelete(NfRule(fam, NFT_TABLE, NFT_POSTROUTING_CHAIN, outer_masq_expr(network), masq)),
           BatchDelete(NfRule(fam, NFT_TABLE, NFT_FILTER_CHAIN,
                              outer_ingress_forward_expr(network), ingress)) >>

\* mutant: the ingress-forward entry carries the egress-forward handle and the reverse
DeleteBatch_HandlesSwapped(network, masq, ingress, egress) ==
    LET fam == nf_family(network)
    IN  << BatchDelete(NfRule(fam, NFT_TABLE, NFT_POSTROUTING_CHAIN, outer_masq_expr(network), masq)),
           BatchDelete(NfRule(fam, NFT_TABLE, NFT_FILTER_CHAIN,
                              outer_ingress_forward_expr(network), egress)),
           BatchDelete(NfRule(fam, NFT_TABLE, NFT_FILTER_CHAIN,
                              outer_egress_forward_expr(network), ingress)) >>

DeleteBatch(network, masq, ingress, egress) ==
    LET fam == nf_family(network)
    IN  << BatchDelete(NfRule(fam, NFT_TABLE, NFT_POSTROUTING_CHAIN, outer_masq_expr(network), masq)),
           BatchDelete(NfRule(fam, NFT_TABLE, NFT_FILTER_CHAIN,
                              outer_ingress_forward_expr(network), ingress)),
           BatchDelete(NfRule(fam, NFT_TABLE, NFT_FILTER_CHAIN,
                              outer_egress_forward_expr(network), egress)) >>

DeleteApply ==
    /\ AtDelete("apply")
    /\ LET batch == DeleteBatch(op.spec, op.masq_handle, op.ingress_handle, op.egress_handle)
       IN  \/ /\ nfaults < MaxFaults
              /\ nfaults' = nfaults + 1
              /\ Fail("NftablesError")
              /\ batches' = Append(batches, Applied(HOST, batch, FALSE))
              /\ UNCHANGED nft
           \/ /\ IF BatchAccepted(nft[HOST], batch)
                 THEN /\ nft' = [nft EXCEPT ![HOST] = ApplyBatch(nft[HOST], batch)]
                      /\ Return("Ok")
                      /\ batches' = Append(batches, Applied(HOST, batch, TRUE))
                 ELSE /\ Fail("NftablesError")
                      /\ batches' = Append(batches, Applied(HOST, batch, FALSE))
                      /\ UNCHANGED nft
              /\ UNCHANGED nfaults
    /\ UNCHANGED <<netns, links, routes, thr, chan, prev, host0, added, nops>>

(* ------------------------------------------------------------------ *)
(* check: the namespace, the base chains, the three outer rules       *)
(* ------------------------------------------------------------------ *)

CheckNetnsOpen ==
    /\ AtCheck("netns_open")
    /\ IF NetNsGetOk(netns, op.spec.netns_name)
       THEN Goto("get_ruleset")
       ELSE Fail("ObjectNotFound:Netns")
    /\ UNCHANGED <<netns, links, routes, nft>>
    /\ Frame

CheckGetRuleset ==
    /\ AtCheck("get_ruleset")
    /\ \/ Fault("NftablesError")
       \/ /\ op' = [op EXCEPT !.ruleset = nft[HOST], !.pc = "verify"]
          /\ UNCHANGED <<netns, links, routes, nft>>
          /\ Frame

\* the verdict of Check on a fetched ruleset
CheckVerdict(network, rs) ==
    IF check_base_chains(network, rs) # "Ok" THEN check_base_chains(network, rs)
    ELSE FirstMissing(ScanRuleset(network, NoHandles, rs))

\* mutant: Check appends the missing base chains and applies them, as Add does
CheckVerify_Repairs ==
    /\ AtCheck("verify")
    /\ IF CheckVerdict(op.spec, op.ruleset) = "Ok"
       THEN Return("Ok")
       ELSE Fail(CheckVerdict(op.spec, op.ruleset))
    /\ nft' = [nft EXCEPT ![HOST] =
                    ApplyBatch(nft[HOST], add_base_chains_if_needed(op.spec, op.ruleset))]
    /\ UNCHANGED <<netns, links, routes>>
    /\ Frame

CheckVerify ==
    /\ AtCheck("verify")
    /\ IF CheckVerdict(op.spec, op.ruleset) = "Ok"
       THEN Return("Ok")
       ELSE Fail(CheckVerdict(op.spec, op.ruleset))
    /\ UNCHANGED <<netns, links, routes, nft>>
    /\ Frame

(* ------------------------------------------------------------------ *)
(* Another agent on the host removes one rule of the outer ruleset    *)
(* ------------------------------------------------------------------ *)

ExternalDeleteRule ==
    /\ op.pc = "done"
    /\ ~ThreadRunning
    /\ nfaults < MaxFaults
    /\ \E i \in DOMAIN nft[HOST] :
        /\ nft[HOST][i].kind = "rule"
        /\ nft' = [nft EXCEPT ![HOST] = SelectSeq(nft[HOST], LAMBDA o : o # nft[HOST][i])]
    /\ nfaults' = nfaults + 1
    \* the operation that finished before is no longer the last thing that happened
    /\ op' = IdleOp
    /\ UNCHANGED <<netns, links, routes, thr, chan, batches, prev, host0, added, nops>>

(* ------------------------------------------------------------------ *)
(* Specifications                                                     *)
(* ------------------------------------------------------------------ *)

AddSteps ==
    \/ AddVeth \/ AddVeth1Index \/ AddVeth1Addr \/ AddVeth1Up \/ AddVeth2Index
    \/ AddNetnsNew \/ AddVeth2Setns \/ AddNetnsGet \/ AddSpawn \/ AddAwaitInner
    \/ AddOuterGetRuleset \/ AddOuterApply \/ AddForwardRoute \/ AddCancel

ThreadSteps ==
    \/ ThrEnter \/ ThrTapBuild \/ ThrNewConnection \/ ThrVeth2Index \/ ThrVeth2Addr
    \/ ThrVeth2Up \/ ThrDefaultRoute \/ ThrTapIndex \/ ThrTapAddr \/ ThrTapUp
    \/ ThrInnerApply \/ ThrSend \/ ThrDie

DeleteSteps ==
    \/ DeleteNetnsGet \/ DeleteNetnsRemove \/ DeleteGetRuleset \/ DeleteScan \/ DeleteApply

CheckSteps ==
    \/ CheckNetnsOpen \/ CheckGetRuleset \/ CheckVerify

Run == \E kind \in {"Add", "Check", "Delete"}, s \in Specs : run(kind, s)

Next == Run \/ AddSteps \/ ThreadSteps \/ DeleteSteps \/ CheckSteps

Spec == Init /\ [][Next]_vars

NextEnv == Next \/ ExternalDeleteRule

SpecEnv == Init /\ [][NextEnv]_vars

(* ------------------------------------------------------------------ *)
(* A host whose outer ruleset was left by others                      *)
(* ------------------------------------------------------------------ *)

\* Add and Delete operations run on such a host
MaxPreOps == 2

BaseChainNames == {NFT_POSTROUTING_CHAIN, NFT_FILTER_CHAIN}

ChainHook(name) == IF name = NFT_POSTROUTING_CHAIN THEN "postrouting" ELSE "forward"

\* a table of a family with some of the base chains, as the kernel lists it
PreTable(family, table, chains) ==
    << NfTable(family, table) >>
    \o (IF NFT_POSTROUTING_CHAIN \in chains
        THEN << NfChain(family, table, NFT_POSTROUTING_CHAIN, ChainHook(NFT_POSTROUTING_CHAIN)) >>
        ELSE <<>>)
    \o (IF NFT_FILTER_CHAIN \in chains
        THEN << NfChain(family, table, NFT_FILTER_CHAIN, ChainHook(NFT_FILTER_CHAIN)) >>
        ELSE <<>>)

\* no table, or the table with a subset of the base chains
PreTables(family, table) ==
    {<<>>} \cup {PreTable(family, table, chains) : chains \in SUBSET BaseChainNames}

\* NFT_TABLE in the family of the specs and in another one, and a table of another
\* name that has a chain named like a base chain
PreRulesets ==
    {a \o b \o c : a \in PreTables("ip", NFT_TABLE), b \in PreTables("ip6", NFT_TABLE),
                   c \in {<<>>, PreTable("ip", "other", {NFT_POSTROUTING_CHAIN})}}

InitPre ==
    /\ netns = {}
    /\ links = {}
    /\ routes = {}
    /\ \E rs \in PreRulesets :
        /\ nft = [n \in AllNs |-> IF n = HOST THEN rs ELSE <<>>]
        /\ host0 = [netns |-> {}, links |-> {}, routes |-> {}, nft |-> nft]
    /\ op = IdleOp
    /\ thr = IdleThr
    /\ chan = "none"
    /\ batches = <<>>
    /\ prev = NoPrev
    /\ added = {}
    /\ nops = IF MaxPreOps < MaxOps THEN MaxOps - MaxPreOps ELSE 0
    /\ nfaults = 0

RunPre == \E kind \in {"Add", "Check", "Delete"} : run(kind, SpecA)

NextPre == RunPre \/ AddSteps \/ ThreadSteps \/ DeleteSteps \/ CheckSteps

SpecPre == InitPre /\ [][NextPre]_vars

(* ------------------------------------------------------------------ *)
(* One spec, with the spawned thread scheduled                        *)
(* ------------------------------------------------------------------ *)

\* an OS thread that can take a step is scheduled in the end, and each call it makes returns
SpecLive == Init /\ [][NextPre]_vars /\ WF_vars(ThreadSteps)

(* ------------------------------------------------------------------ *)
(* Networks of both address families                                  *)
(* ------------------------------------------------------------------ *)

\* V6 throughout, with forwarding; it names the namespace and the veth pair as SpecA does
SpecD ==
    [ ip_stack |-> "V6", iface_name |-> "eth0",
      tap_name |-> "tap0", tap_ip |-> Inet(V6("fd02:", "fd02::1"), 64),
      guest_ip |-> Inet(V6("fd02:", "fd02::2"), 64),
      netns_name |-> "nsA", veth1_name |-> "veth0", veth2_name |-> "vpeer0",
      veth1_ip |-> Inet(V6("fd01:", "fd01::1"), 64),
      veth2_ip |-> Inet(V6("fd01:", "fd01::2"), 64),
      forwarded_guest_ip |-> V6("fd00:", "fd00::9") ]

RouteSpecs == Specs \cup {SpecD}

InitFwd ==
    /\ netns = {}
    /\ links = {}
    /\ routes = {}
    /\ nft = [n \in AllNs |-> <<>>]
    /\ op = IdleOp
    /\ thr = IdleThr
    /\ chan = "none"
    /\ batches = <<>>
    /\ prev = NoPrev
    /\ host0 = [netns |-> {}, links |-> {}, routes |-> {}, nft |-> nft]
    /\ added = {}
    /\ nops = IF MaxPreOps < MaxOps THEN MaxOps - MaxPreOps ELSE 0
    /\ nfaults = 0

RunFwd == \E kind \in {"Add", "Check", "Delete"}, s \in RouteSpecs : run(kind, s)

NextFwd == RunFwd \/ AddSteps \/ ThreadSteps \/ DeleteSteps \/ CheckSteps

SpecFwd == InitFwd /\ [][NextFwd]_vars

(* ------------------------------------------------------------------ *)
(* Networks that share names                                          *)
(* ------------------------------------------------------------------ *)

\* SpecA's names and addresses with the Dual ip stack: its rules go to the inet family
SpecADual == [SpecA EXCEPT !.ip_stack = "Dual"]

\* SpecB's names and addresses, with veth1 named as the host interface
SpecLoop == [SpecB EXCEPT !.iface_name = SpecB.veth1_name]

FamilySpecs == {SpecA, SpecADual, SpecLoop}

RunFam == \E kind \in {"Add", "Check", "Delete"}, s \in FamilySpecs : run(kind, s)

NextFam == RunFam \/ AddSteps \/ ThreadSteps \/ DeleteSteps \/ CheckSteps

SpecFam == InitFwd /\ [][NextFam]_vars

(* ------------------------------------------------------------------ *)
(* Properties                                                         *)
(* ------------------------------------------------------------------ *)

Finished(kind) == op.kind = kind /\ op.pc = "done"

\* the current operation runs on the spec whose Add ran right before it
AfterAddOfSameSpec == prev.kind = "Add" /\ prev.spec = op.spec

\* C1: a successful Add(S) on a host that held none of S's resources, followed by a
\* successful Delete(S), leaves no namespace S.netns_name, no rule of NFT_TABLE with
\* one of S's three expressions, and no host route to S.forwarded_guest_ip.
C1_AddDeleteLeavesNothing ==
    (Finished("Delete") /\ op.result = "Ok" /\ AfterAddOfSameSpec /\ prev.ok /\ prev.clean0)
        => /\ op.spec.netns_name \notin netns
           /\ AttributableRules(HostRec, op.spec) = {}
           /\ ForwardRoutes(HostRec, op.spec) = {}

\* C1 witness: such a Delete has returned success for a spec with a forwarded guest ip,
\* whose namespace, rules and route were on the host when Delete was invoked.
C1_Witness ==
    /\ Finished("Delete") /\ op.result = "Ok" /\ AfterAddOfSameSpec /\ prev.ok /\ prev.clean0
    /\ op.spec.netns_name \in host0.netns
    /\ Cardinality(AttributableRules(host0, op.spec)) = 3
    /\ ForwardRoutes(host0, op.spec) # {}

\* C2: a Check(S) run right after a successful Add(S) returns success: it finds the
\* namespace, the table, both base chains and the three outer rules.  (A Check whose
\* fetch of the ruleset fails in transport has looked for nothing.)
C2_CheckAfterAdd ==
    (op.kind = "Check" /\ AfterAddOfSameSpec /\ prev.ok)
        => /\ op.spec.netns_name \in netns
           /\ op.pc = "verify" =>
                /\ check_base_chains(op.spec, op.ruleset) = "Ok"
                /\ MasqRules([nft |-> [n \in {HOST} |-> op.ruleset]], op.spec) # {}
                /\ IngressRules([nft |-> [n \in {HOST} |-> op.ruleset]], op.spec) # {}
                /\ EgressRules([nft |-> [n \in {HOST} |-> op.ruleset]], op.spec) # {}
           /\ op.pc = "done" => (op.result = "Ok" \/ op.failed_at = "get_ruleset")

\* C2 witness: a Check right after a successful Add has returned success.
C2_Witness ==
    Finished("Check") /\ AfterAddOfSameSpec /\ prev.ok /\ op.result = "Ok"

\* C3: whenever the namespace S.netns_name is absent, Check(S) fails with
\* ObjectNotFound of kind Netns, whatever the outer ruleset holds.
C3_CheckWithoutNetns ==
    (Finished("Check") /\ op.spec.netns_name \notin host0.netns)
        => op.result = "ObjectNotFound:Netns"

\* C3 witness: Check has failed on an absent namespace while the outer ruleset held
\* the table, both base chains and the spec's three rules.
C3_Witness ==
    /\ Finished("Check") /\ op.spec.netns_name \notin host0.netns
    /\ op.result = "ObjectNotFound:Netns"
    /\ CheckVerdict(op.spec, host0.nft[HOST]) = "Ok"

DualStackForward(s) ==
    s.forwarded_guest_ip # NoAddr /\ s.forwarded_guest_ip.fam # s.veth2_ip.address.fam

\* C4 (as claimed): when the family of forwarded_guest_ip differs from that of
\* veth2_ip and Add fails with ForbiddenDualStackInRoute, no nftables batch has been
\* applied in the inner or the outer namespace.
C4_FamilySafety ==
    (Finished("Add") /\ DualStackForward(op.spec) /\ op.result = "ForbiddenDualStackInRoute")
        => batches = <<>>

RuleNotFound(result) ==
    result \in {"ObjectNotFound:NfMasqueradeRule", "ObjectNotFound:NfIngressForwardRule",
                "ObjectNotFound:NfEgressForwardRule"}

\* C5 (as claimed): whenever Delete(S) returns ObjectNotFound for a missing outer
\* rule, the namespace S.netns_name, the veth pair and the outer ruleset are as they
\* were when Delete was invoked.
C5_DeleteVerifiesBeforeMutating ==
    (Finished("Delete") /\ RuleNotFound(op.result))
        => /\ (op.spec.netns_name \in netns) = (op.spec.netns_name \in host0.netns)
           /\ VethLinks(HostRec, op.spec) = VethLinks(host0, op.spec)
           /\ nft[HOST] = host0.nft[HOST]

\* the rules of a fetched ruleset that are one of the spec's, by table, chain and expression
Fetched(rs) == [nft |-> [n \in {HOST} |-> rs]]

SomeRuleMissing(rs, s) ==
    \/ MasqRules(Fetched(rs), s) = {}
    \/ IngressRules(Fetched(rs), s) = {}
    \/ EgressRules(Fetched(rs), s) = {}

FirstRuleMissing(rs, s) ==
    IF MasqRules(Fetched(rs), s) = {} THEN "ObjectNotFound:NfMasqueradeRule"
    ELSE IF IngressRules(Fetched(rs), s) = {} THEN "ObjectNotFound:NfIngressForwardRule"
    ELSE "ObjectNotFound:NfEgressForwardRule"

\* Delete has fetched the outer ruleset and scanned it
DeleteScanned ==
    /\ op.kind = "Delete"
    /\ \/ op.pc = "apply"
       \/ op.pc = "done" /\ op.failed_at \notin {"netns_get", "netns_remove", "get_ruleset"}

\* C6: if one of S's three outer rules is not in the fetched ruleset, Delete(S) applies
\* no nftables batch, the outer ruleset stays as fetched, and Delete returns
\* ObjectNotFound for the first missing rule in the order masquerade, ingress, egress.
C6_DeleteMissingRule ==
    (DeleteScanned /\ SomeRuleMissing(op.ruleset, op.spec))
        => /\ op.pc = "done"
           /\ op.result = FirstRuleMissing(op.ruleset, op.spec)
           /\ batches = <<>>
           /\ nft[HOST] = op.ruleset

\* C6 witness: Delete has returned ObjectNotFound for the ingress-forward rule while
\* the masquerade and egress-forward rules it found are still in the outer ruleset.
C6_Witness ==
    /\ Finished("Delete") /\ op.result = "ObjectNotFound:NfIngressForwardRule"
    /\ MasqRules(HostRec, op.spec) # {}
    /\ EgressRules(HostRec, op.spec) # {}

\* C7: an Add(S) right after a successful Add(S) fails with NetlinkOperationError at
\* the creation of the veth pair, before any other sub-operation, and leaves the host
\* (namespaces, links and addresses, routes, inner and outer rulesets) as it was.
C7_DoubleAdd ==
    (op.kind = "Add" /\ AfterAddOfSameSpec /\ prev.ok)
        => /\ op.pc \in {"add_veth", "done"}
           /\ op.pc = "done" =>
                /\ op.result = "NetlinkOperationError"
                /\ op.failed_at = "add_veth"
                /\ HostRec = host0
                /\ batches = <<>>
                /\ thr.pc = "none"

\* C7 witness: the second Add has failed on a host that holds everything the first
\* Add created, the forward route included.
C7_Witness ==
    /\ Finished("Add") /\ AfterAddOfSameSpec /\ prev.ok
    /\ op.result = "NetlinkOperationError"
    /\ op.spec.netns_name \in netns
    /\ Cardinality(VethLinks(HostRec, op.spec)) = 2
    /\ Cardinality(AttributableRules(HostRec, op.spec)) = 3
    /\ ForwardRoutes(HostRec, op.spec) # {}

AddErrorsAt(pc) ==
    CASE pc \in {"add_veth", "veth1_addr", "veth1_up", "veth2_setns"} -> {"NetlinkOperationError"}
      [] pc \in {"veth1_index", "veth2_index"} -> {"NetlinkOperationError", "ObjectNotFound:IpLink"}
      [] pc \in {"netns_new", "netns_get"} -> {"NetnsError"}
      [] pc \in {"outer_get_ruleset", "outer_apply"} -> {"NftablesError"}
      [] pc = "forward_route" -> {"NetlinkOperationError", "ForbiddenDualStackInRoute"}
      [] OTHER -> {}

ThrErrorsAt(pc) ==
    CASE pc = "enter" -> {"NetnsError"}
      [] pc = "tap_build" -> {"TapDeviceError"}
      [] pc = "new_connection" -> {"IoError"}
      [] pc \in {"veth2_index", "tap_index"} -> {"NetlinkOperationError", "ObjectNotFound:IpLink"}
      [] pc \in {"veth2_addr", "veth2_up", "default_route", "tap_addr", "tap_up"} ->
            {"NetlinkOperationError"}
      [] pc = "inner_apply" -> {"NftablesError"}
      [] OTHER -> {}

\* once the thread has sent an error, Add is at its await or has returned: with that
\* error, or cancelled before it received it
C8_InnerErrorEndsAdd ==
    (op.kind = "Add" /\ chan = "sent" /\ thr.result # "Ok")
        => /\ op.pc \in {"await_inner", "done"}
           /\ op.pc = "done" => op.result \in {thr.result, "Cancelled"}

C8_Step ==
    \* a sub-operation of the caller fails: Add returns its error, the host is untouched
    /\ (op.kind = "Add" /\ op.pc \notin {"done", "await_inner"} /\ op'.pc = "done"
            /\ op'.result # "Ok")
        => /\ op'.result \in AddErrorsAt(op.pc)
           /\ host' = host
           /\ thr' = thr
    \* a sub-operation on the thread fails: the block ends with its error, the host is untouched
    /\ (thr.pc \notin {"none", "send", "exited"} /\ thr'.pc = "send" /\ thr'.result # "Ok")
        => /\ thr'.result \in ThrErrorsAt(thr.pc)
           /\ host' = host
    \* the thread, its block ended, sends and ends
    /\ thr.pc = "send" => (thr'.pc \in {"send", "exited"} /\ thr'.result = thr.result /\ host' = host)
    \* the error received from the thread is what Add returns
    /\ (op.kind = "Add" /\ op.pc = "await_inner" /\ op'.pc = "done"
            /\ op'.result \notin {"Cancelled", "ChannelCancelError"})
        => /\ op'.result = thr.result
           /\ op'.result # "Ok"
           /\ host' = host
    \* an Add that has returned executes nothing more and undoes nothing
    /\ (Finished("Add") /\ ~ThreadRunning /\ op' = op) => host' = host

\* C8: when a sub-operation of Add fails, Add returns that sub-operation's error,
\* executes no later sub-operation, and undoes nothing that was committed before.
C8_AddAbortsWithoutRollback == []C8_InnerErrorEndsAdd /\ [][C8_Step]_vars

\* C8 witness: Add has returned the error of a sub-operation run on the thread, and the
\* namespace and the veth pair that step 1 committed are still there.
C8_Witness ==
    /\ Finished("Add") /\ op.failed_at = "await_inner" /\ op.result = "NftablesError"
    /\ op.spec.netns_name \in netns
    /\ Cardinality(VethLinks(HostRec, op.spec)) = 2

\* C9 (as claimed): after an Add(S) on a clean host that failed or was cancelled, a
\* Delete(S) leaves no namespace S.netns_name, no veth1/veth2 link and none of S's
\* three outer rules.
C9_DeleteReconcilesPartialAdd ==
    (Finished("Delete") /\ AfterAddOfSameSpec /\ ~prev.ok /\ prev.clean0)
        => /\ op.spec.netns_name \notin netns
           /\ VethLinks(HostRec, op.spec) = {}
           /\ AttributableRules(HostRec, op.spec) = {}

\* what Check returns on a host, its fetch of the ruleset succeeding
CheckOutcome(h, s) ==
    IF ~NetNsGetOk(h.netns, s.netns_name) THEN "ObjectNotFound:Netns"
    ELSE CheckVerdict(s, h.nft[HOST])

DisjointSpecs(s1, s2) ==
    /\ s1.netns_name # s2.netns_name
    /\ {s1.veth1_name, s1.veth2_name} \cap {s2.veth1_name, s2.veth2_name} = {}
    /\ {s1.veth1_ip, s1.veth2_ip} \cap {s2.veth1_ip, s2.veth2_ip} = {}

\* C10: for specs S1, S2 with different netns names, veth names and veth addresses,
\* both added successfully, a successful Delete(S1) leaves S2's namespace, S2's three
\* outer rules and S2's forward route as they were, and Check(S2) succeeds on the
\* resulting host; a Check that has fetched the ruleset returns that outcome.
C10_DeleteLeavesOtherSpec ==
    /\ \A s2 \in added :
        (Finished("Delete") /\ op.result = "Ok" /\ op.was_added /\ DisjointSpecs(op.spec, s2))
            => /\ s2.netns_name \in netns
               /\ MasqRules(HostRec, s2) = MasqRules(host0, s2) /\ MasqRules(HostRec, s2) # {}
               /\ IngressRules(HostRec, s2) = IngressRules(host0, s2) /\ IngressRules(HostRec, s2) # {}
               /\ EgressRules(HostRec, s2) = EgressRules(host0, s2) /\ EgressRules(HostRec, s2) # {}
               /\ ForwardRoutes(HostRec, s2) = ForwardRoutes(host0, s2)
               /\ s2.forwarded_guest_ip # NoAddr => ForwardRoutes(HostRec, s2) # {}
               /\ CheckOutcome(HostRec, s2) = "Ok"
    /\ (Finished("Check") /\ op.failed_at # "get_ruleset")
            => op.result = CheckOutcome(host0, op.spec)

\* C10 witness: Delete(S1) has succeeded while a spec S2 with a forwarded guest ip,
\* added after S1, keeps its namespace, rules and route.
C10_Witness ==
    /\ Finished("Delete") /\ op.result = "Ok" /\ op.was_added
    /\ \E s2 \in added :
        /\ DisjointSpecs(op.spec, s2)
        /\ s2.forwarded_guest_ip # NoAddr
        /\ ForwardRoutes(HostRec, s2) # {}
        /\ prev.kind = "Add" /\ prev.spec = s2 /\ prev.ok

\* C11: Check is read-only: whatever the host holds and whatever Check returns, no
\* step of Check changes the namespaces, the links, the routes or a ruleset, and Check
\* hands no batch to nftables.
C11_CheckReadOnly ==
    /\ [](Finished("Check") => (HostRec = host0 /\ batches = <<>>))
    /\ [][op'.handler = "check" => (host' = host /\ batches' = <<>>)]_vars

\* C11 witness: Check has returned an error from its last step on a host that holds
\* the spec's namespace, and the host is as it was when Check was invoked.
C11_Witness ==
    /\ Finished("Check") /\ op.result = "ObjectNotFound:NfIngressForwardRule"
    /\ op.spec.netns_name \in netns
    /\ nft[HOST] # <<>>
    /\ HostRec = host0

TablesAndChains(rs) == {o \in SeqToSet(rs) : o.kind \in {"table", "chain"}}

\* the entry deletes a rule of the chain, by the handle under which the fetched ruleset
\* lists the rule with that expression
DeletesCaptured(e, chain, expr, fetched) ==
    /\ e.verb = "delete" /\ e.obj.kind = "rule"
    /\ e.obj.table = NFT_TABLE /\ e.obj.chain = chain /\ e.obj.expr = expr
    /\ e.obj.handle # 0
    /\ \E o \in SeqToSet(fetched) :
        /\ o.kind = "rule" /\ o.table = NFT_TABLE /\ o.chain = chain
        /\ o.expr = expr /\ o.handle = e.obj.handle

\* C12: a successful Delete(S) has applied one batch of exactly three delete-rule
\* entries (masquerade in postrouting, ingress-forward and egress-forward in filter),
\* each with the handle captured from the fetched ruleset, and the tables and chains
\* of the outer ruleset are those that were there when Delete was invoked.
C12_DeleteKeepsBaseChains ==
    (Finished("Delete") /\ op.result = "Ok")
        => /\ Len(batches) = 1 /\ batches[1].ns = HOST /\ batches[1].committed
           /\ LET b == batches[1].batch
              IN  /\ Len(b) = 3
                  /\ DeletesCaptured(b[1], NFT_POSTROUTING_CHAIN, outer_masq_expr(op.spec), op.ruleset)
                  /\ DeletesCaptured(b[2], NFT_FILTER_CHAIN,
                                     outer_ingress_forward_expr(op.spec), op.ruleset)
                  /\ DeletesCaptured(b[3], NFT_FILTER_CHAIN,
                                     outer_egress_forward_expr(op.spec), op.ruleset)
           /\ TablesAndChains(nft[HOST]) = TablesAndChains(host0.nft[HOST])

\* C12 witness: Delete has succeeded on a host whose outer ruleset held the table and
\* both base chains, and holds them still, with the spec's rules gone.
C12_Witness ==
    /\ Finished("Delete") /\ op.result = "Ok"
    /\ Cardinality(TablesAndChains(host0.nft[HOST])) = 3
    /\ check_base_chains(op.spec, nft[HOST]) = "Ok"
    /\ AttributableRules(HostRec, op.spec) = {}

\* the networks the base-chain functions are applied to: the specs, and SpecA in the
\* two other ip stacks
Networks == Specs \cup {[SpecA EXCEPT !.ip_stack = st] : st \in {"V6", "Dual"}}

\* C13: for the outer ruleset R of every state and every network, the objects
\* add_base_chains_if_needed appends for R are accepted, and on the ruleset they give
\* add_base_chains_if_needed appends no table and no chain.
C13_EnsureIdempotent ==
    \A n \in Networks :
        LET R  == nft[HOST]
            b  == add_base_chains_if_needed(n, R)
            R2 == ApplyBatch(R, b)
        IN  /\ BatchAccepted(R, b)
            /\ add_base_chains_if_needed(n, R2) = <<>>

\* C13 witness: Add has applied its outer batch, which held base-chain objects, to a
\* ruleset that already held part of them, and would append none now.
C13_Witness ==
    /\ op.kind = "Add" /\ op.pc = "forward_route"
    /\ op.ruleset # <<>>
    /\ add_base_chains_if_needed(op.spec, op.ruleset) # <<>>
    /\ batches[Len(batches)].ns = HOST /\ batches[Len(batches)].committed
    /\ add_base_chains_if_needed(op.spec, nft[HOST]) = <<>>

\* the rules of the fetched ruleset listed under a handle
RulesWithHandle(rs, chain, handle) ==
    {o \in SeqToSet(rs) : o.kind = "rule" /\ o.table = NFT_TABLE /\ o.chain = chain
                          /\ o.handle = handle}

\* C14: the statement lists Delete(S) rebuilds are those Add(S) built: a Delete(S) run
\* right after a successful Add(S), once it has scanned the fetched ruleset, has found
\* each of the three outer rules there and holds a handle for each, under which the
\* ruleset lists a rule with the rebuilt statement list.
C14_BuildersDeterministic ==
    (DeleteScanned /\ AfterAddOfSameSpec /\ prev.ok)
        => /\ ~SomeRuleMissing(op.ruleset, op.spec)
           /\ op.failed_at # "scan"
           /\ op.masq_handle # 0 /\ op.ingress_handle # 0 /\ op.egress_handle # 0
           /\ \E o \in RulesWithHandle(op.ruleset, NFT_POSTROUTING_CHAIN, op.masq_handle) :
                o.expr = outer_masq_expr(op.spec)
           /\ \E o \in RulesWithHandle(op.ruleset, NFT_FILTER_CHAIN, op.ingress_handle) :
                o.expr = outer_ingress_forward_expr(op.spec)
           /\ \E o \in RulesWithHandle(op.ruleset, NFT_FILTER_CHAIN, op.egress_handle) :
                o.expr = outer_egress_forward_expr(op.spec)

\* C14 witness: such a Delete is about to apply its batch, on a host where another
\* spec's rules, added before, sit in the same chains.
C14_Witness ==
    /\ op.kind = "Delete" /\ op.pc = "apply" /\ AfterAddOfSameSpec /\ prev.ok
    /\ op.masq_handle # 0 /\ op.ingress_handle # op.egress_handle
    /\ \E s2 \in added : s2 # op.spec /\ AttributableRules(HostRec, s2) # {}

\* the positions of the thread inside the inner block (steps 2 and 3 of Add)
InnerPcs ==
    {"tap_build", "new_connection", "veth2_index", "veth2_addr", "veth2_up",
     "default_route", "tap_index", "tap_addr", "tap_up", "inner_apply"}

\* what a namespace holds
InNs(ls, rts, nf, n) ==
    [links |-> {l \in ls : l.ns = n}, routes |-> {r \in rts : r.ns = n}, nft |-> nf[n]]

C15_Membership ==
    /\ op.ns = HOST
    /\ thr.ns \in {HOST, thr.spec.netns_name}
    /\ thr.pc \in {"none", "enter"} => thr.ns = HOST
    /\ thr.pc \in InnerPcs => (thr.ns = thr.spec.netns_name /\ thr.ns # HOST)

C15_Step ==
    \* a step of the inner block acts in the namespace the thread has entered
    /\ (thr.pc \in InnerPcs /\ thr' # thr)
        => \A n \in AllNs \ {thr.ns} :
              InNs(links', routes', nft', n) = InNs(links, routes, nft, n)
    \* a ruleset inside a namespace is written by that thread alone
    /\ \A n \in NsNames :
        (n \in netns' /\ n \in netns /\ nft'[n] # nft[n])
            => (thr.ns = n /\ thr.pc = "inner_apply" /\ thr' # thr)
    \* a TAP device appears in a namespace through that thread alone
    /\ \A l \in links' :
        (l.kind = "tap" /\ \A k \in links : k.idx # l.idx)
            => (thr.ns = l.ns /\ l.ns # HOST /\ thr.pc = "tap_build")
    \* its block finished, the thread sends and ends; ended, it does nothing
    /\ (thr.pc = "send" /\ thr' # thr) => (thr'.pc = "exited" /\ host' = host)
    /\ (thr.pc = "exited" /\ thr' # thr) => (thr' = IdleThr /\ host' = host)

\* C15: the calling task's thread stays a member of the host namespace; only the thread
\* use_netns_in_thread spawns enters the named namespace; the TAP creation, the inner
\* netlink operations and the inner nftables batch run on that thread, after its enter
\* succeeded, and touch that namespace alone; the block over, the thread ends.
C15_EntryConfinedToThread == []C15_Membership /\ [][C15_Step]_vars

\* C15 witness: the thread, a member of the named namespace, has applied the inner
\* batch there, while the caller awaits it in the host namespace.
C15_Witness ==
    /\ op.kind = "Add" /\ op.pc = "await_inner" /\ op.ns = HOST
    /\ thr.pc = "send" /\ thr.result = "Ok"
    /\ thr.ns = op.spec.netns_name
    /\ nft[thr.ns] # <<>> /\ nft[HOST] = <<>>

\* all that the inner block sets up in the spec's namespace
InnerComplete(s) ==
    /\ \E l \in LinksNamed(links, s.netns_name, s.tap_name) :
        l.kind = "tap" /\ l.up /\ s.tap_ip \in l.addrs
    /\ \E l \in LinksNamed(links, s.netns_name, s.veth2_name) : l.up /\ s.veth2_ip \in l.addrs
    /\ \E r \in routes : r.ns = s.netns_name /\ r.plen = 0 /\ r.gw = s.veth1_ip.address
    /\ nft[s.netns_name] = ApplyBatch(<<>>, InnerBatch(s))

C16_Step ==
    \* the receiver dropped, the thread is where it was
    /\ (chan' = "dropped" /\ chan # "dropped") => (thr' = thr /\ thr.pc \notin {"none", "exited"})
    \* the send into the dropped channel fails, and the thread ends as it would have
    /\ (chan = "dropped" /\ thr.pc = "send" /\ thr' # thr)
        => (thr'.pc = "exited" /\ thr'.result = thr.result /\ chan' = "dropped")

\* the thread of a cancelled call that ended with Ok has set up all of the inner block
C16_BlockCompleted ==
    (chan = "dropped" /\ thr.pc = "exited" /\ thr.result = "Ok") => InnerComplete(thr.spec)

\* C16: if the caller drops the receiver while the thread runs, the thread is not
\* stopped: it runs the inner block to its end and terminates, and its send into the
\* dropped channel is ignored without a panic.
C16_CancelLeavesThreadRunning ==
    /\ [][C16_Step]_vars
    /\ []C16_BlockCompleted
    /\ (chan = "dropped") ~> (thr.pc = "exited")

\* C16 witness: the receiver was dropped, and the thread has finished the whole inner
\* block with success and ended.
C16_Witness ==
    /\ chan = "dropped" /\ thr.pc = "exited" /\ thr.result = "Ok"
    /\ Finished("Add") /\ op.result = "Cancelled"
    /\ InnerComplete(thr.spec)

\* what the thread's result says of the thread
C17_ThreadResult ==
    \* a result was sent: it is the one the thread produced
    /\ chan = "sent" => (thr.pc = "exited" /\ thr.result # "Pending")
    \* Ok: the enter succeeded and the whole inner block did
    /\ (op.kind = "Add" /\ thr.pc \in {"send", "exited"} /\ thr.result = "Ok")
        => (thr.ns = thr.spec.netns_name /\ InnerComplete(thr.spec))
    \* the enter failed: the inner block was never started
    /\ (op.kind = "Add" /\ thr.pc \in {"send", "exited"} /\ thr.ns = HOST /\ thr.result # "Pending")
        => /\ thr.result = "NetnsError"
           /\ LinksNamed(links, thr.spec.netns_name, thr.spec.tap_name) = {}
           /\ nft[thr.spec.netns_name] = <<>>
    \* ChannelCancelError has been returned: the thread ended and sent nothing
    /\ (op.kind = "Add" /\ op.result = "ChannelCancelError")
        => (op.failed_at = "await_inner" /\ chan = "closed" /\ thr.pc = "exited"
            /\ thr.result = "Pending")
    \* the thread ended and sent nothing: the channel is closed, or the receiver is gone
    /\ (thr.pc = "exited" /\ thr.result = "Pending") => chan \in {"closed", "dropped"}

C17_Step ==
    \* the await ends, not cancelled by the caller: with the thread's result if one
    \* was sent, with ChannelCancelError if and only if none was
    (AtAdd("await_inner") /\ op' # op /\ op'.result # "Cancelled")
        => /\ chan \in {"sent", "closed"}
           /\ chan = "sent" /\ thr.result = "Ok"
                => (op'.pc = "outer_get_ruleset" /\ op'.result = "Pending")
           /\ chan = "sent" /\ thr.result # "Ok"
                => (op'.pc = "done" /\ op'.result = thr.result
                    /\ op'.result # "ChannelCancelError")
           /\ chan = "closed"
                => (op'.pc = "done" /\ op'.result = "ChannelCancelError")

\* C17: use_netns_in_thread returns the result the thread produced whenever the thread
\* sent one (Ok only when the enter and the inner block both succeeded; NetnsError of
\* a failed enter with the inner block never started), and ChannelCancelError exactly
\* when the thread ended without sending a result.
C17_ThreadResultReturned == []C17_ThreadResult /\ [][C17_Step]_vars

\* C17 witness: the thread died inside the inner block, sending nothing, and Add has
\* returned ChannelCancelError.
C17_Witness ==
    /\ Finished("Add") /\ op.result = "ChannelCancelError"
    /\ thr.pc = "exited" /\ thr.result = "Pending" /\ thr.ns = op.spec.netns_name
    /\ chan = "closed"

\* what step 1 of Add sets up
OuterInterfacesDone(s) ==
    /\ s.netns_name \in netns
    /\ \E l \in LinksNamed(links, HOST, s.veth1_name) : l.up /\ s.veth1_ip \in l.addrs
    /\ LinksNamed(links, s.netns_name, s.veth2_name) # {}

\* what step 2 of Add sets up
InnerInterfacesDone(s) ==
    /\ \E l \in LinksNamed(links, s.netns_name, s.tap_name) :
        l.kind = "tap" /\ l.up /\ s.tap_ip \in l.addrs
    /\ \E l \in LinksNamed(links, s.netns_name, s.veth2_name) : l.up /\ s.veth2_ip \in l.addrs
    /\ \E r \in routes : r.ns = s.netns_name /\ r.plen = 0 /\ r.gw = s.veth1_ip.address

BatchesFor(inHost) == {i \in DOMAIN batches : (batches[i].ns = HOST) = inHost}

\* Add is at step 4 or past it
AtOrPastOuterRules ==
    \/ op.pc \in {"outer_get_ruleset", "outer_apply", "forward_route"}
    \/ op.pc = "done" /\ op.result = "Ok"
    \/ op.pc = "done" /\ op.failed_at \in {"outer_get_ruleset", "outer_apply", "forward_route"}
    \/ BatchesFor(TRUE) # {}

\* Add is at step 5 or past it
AtOrPastForwardRoute ==
    \/ op.pc = "forward_route"
    \/ op.pc = "done" /\ op.result = "Ok"
    \/ op.pc = "done" /\ op.failed_at = "forward_route"

C18_Order ==
    op.kind = "Add" =>
        \* step 2 has started: step 1 has succeeded
        /\ thr.pc # "none" => OuterInterfacesDone(op.spec)
        \* step 3 has started: every operation of step 2 has succeeded
        /\ (thr.pc = "inner_apply" \/ BatchesFor(FALSE) # {}) => InnerInterfacesDone(op.spec)
        \* step 4 has started: the thread's Ok has been sent, steps 2 and 3 are complete
        /\ AtOrPastOuterRules
            => (chan = "sent" /\ thr.pc = "exited" /\ thr.result = "Ok"
                /\ InnerComplete(op.spec))
        \* step 5 has started: the outer batch is committed
        /\ AtOrPastForwardRoute
            => (\E i \in BatchesFor(TRUE) : batches[i].committed)
        \* the forward route is there: step 5 has succeeded
        /\ ForwardRoutes(HostRec, op.spec) # ForwardRoutes(host0, op.spec)
            => (op.pc = "done" /\ op.result = "Ok")

C18_Step ==
    \* the outer ruleset is fetched, and written, by the caller past its await
    /\ (op'.kind = "Add" /\ op.pc # "done" /\ op'.ruleset # op.ruleset)
        => (op.pc = "outer_get_ruleset" /\ chan = "sent" /\ thr.result = "Ok")
    /\ (op.kind = "Add" /\ nft'[HOST] # nft[HOST])
        => (op.pc = "outer_apply" /\ chan = "sent" /\ thr.result = "Ok")
    \* the inner batch is applied when the inner interfaces are set up
    /\ \A n \in NsNames :
        (n \in netns /\ n \in netns' /\ nft'[n] # nft[n])
            => (thr.pc = "inner_apply" /\ InnerInterfacesDone(thr.spec))

\* C18: in every run of Add the steps come in the order outer interfaces, inner
\* interfaces, inner nftables, outer nftables, forward route, each begun only when the
\* one before has succeeded: the inner batch is applied after all inner interface
\* operations, and the outer ruleset is not fetched or written before the caller has
\* received the thread's result.
C18_StepsInOrder == []C18_Order /\ [][C18_Step]_vars

\* C18 witness: Add has fetched the outer ruleset, the thread having sent Ok after the
\* whole inner block, and has not written the outer ruleset yet.
C18_Witness ==
    /\ op.kind = "Add" /\ op.pc = "outer_apply"
    /\ chan = "sent" /\ thr.result = "Ok" /\ InnerComplete(op.spec)
    /\ AttributableRules(HostRec, op.spec) = {}
    /\ BatchesFor(FALSE) # {} /\ BatchesFor(TRUE) = {}

\* C19 (as claimed): for the outer ruleset R of every state and every network, applying
\* what add_base_chains_if_needed appends for R gives a ruleset in which NFT_TABLE of
\* the network's family exists and holds the postrouting and the filter chain, so that
\* the batch of setup_outer_nf_rules, whose rules refer to those chains, is accepted.
C19_BaseChainsInFamily ==
    \A n \in Networks :
        LET R   == nft[HOST]
            fam == nf_family(n)
            R2  == ApplyBatch(R, add_base_chains_if_needed(n, R))
        IN  /\ HasTable(R2, fam, NFT_TABLE)
            /\ HasChain(R2, fam, NFT_TABLE, NFT_POSTROUTING_CHAIN)
            /\ HasChain(R2, fam, NFT_TABLE, NFT_FILTER_CHAIN)
            /\ BatchAccepted(R, OuterBatch(n, R))

\* C20: for the outer ruleset R of every state and every network, check_base_chains
\* returns Ok exactly when add_base_chains_if_needed appends nothing for R, and else
\* ObjectNotFound of the first object add_base_chains_if_needed appends (it appends in
\* the order table, postrouting chain, filter chain).
C20_CheckMatchesEnsure ==
    \A n \in Networks :
        LET R == nft[HOST]
            b == add_base_chains_if_needed(n, R)
            c == check_base_chains(n, R)
        IN  /\ (c = "Ok") <=> (b = <<>>)
            /\ b # <<>> =>
                c = (IF b[1].obj.kind = "table" THEN "ObjectNotFound:NfTable"
                     ELSE IF b[1].obj.chain = NFT_POSTROUTING_CHAIN
                          THEN "ObjectNotFound:NfPostroutingChain"
                          ELSE "ObjectNotFound:NfFilterChain")
            /\ \A i \in DOMAIN b : b[i].verb = "add" /\ b[i].obj.table = NFT_TABLE

\* C20 witness: Check has returned ObjectNotFound for the postrouting chain on an outer
\* ruleset where the table is there and both chains are missing, for which
\* add_base_chains_if_needed appends the postrouting chain first.
C20_Witness ==
    /\ Finished("Check") /\ op.result = "ObjectNotFound:NfPostroutingChain"
    /\ Len(add_base_chains_if_needed(op.spec, op.ruleset)) = 2
    /\ add_base_chains_if_needed(op.spec, op.ruleset)[1].obj.chain = NFT_POSTROUTING_CHAIN

\* positions of the batch holding an add of such an object
TableAt(b, fam) ==
    {i \in DOMAIN b : b[i].verb = "add" /\ b[i].obj.kind = "table"
                      /\ b[i].obj.family = fam /\ b[i].obj.table = NFT_TABLE}

ChainAt(b, fam, chain) ==
    {i \in DOMAIN b : b[i].verb = "add" /\ b[i].obj.kind = "chain" /\ b[i].obj.family = fam
                      /\ b[i].obj.table = NFT_TABLE /\ b[i].obj.chain = chain}

RuleAt(b, fam, chain, expr) ==
    {i \in DOMAIN b : b[i].verb = "add" /\ b[i].obj.kind = "rule" /\ b[i].obj.family = fam
                      /\ b[i].obj.table = NFT_TABLE /\ b[i].obj.chain = chain
                      /\ b[i].obj.expr = expr}

\* the shape of an inner batch built for a spec
InnerBatchWellFormed(b, s) ==
    LET fam == nf_family(s)
        fwd == s.forwarded_guest_ip # NoAddr
    IN  /\ \A i \in DOMAIN b : b[i].verb = "add"
        \* table, postrouting chain, SNAT rule, in this order
        /\ \E i \in TableAt(b, fam) :
           \E j \in ChainAt(b, fam, NFT_POSTROUTING_CHAIN) :
           \E k \in RuleAt(b, fam, NFT_POSTROUTING_CHAIN, inner_snat_expr(s)) : i < j /\ j < k
        \* prerouting chain and DNAT rule exactly with forwarding
        /\ (ChainAt(b, fam, NFT_PREROUTING_CHAIN) # {}) <=> fwd
        /\ ({i \in DOMAIN b : b[i].obj.kind = "rule"
                              /\ b[i].obj.chain = NFT_PREROUTING_CHAIN} # {}) <=> fwd
        /\ fwd => RuleAt(b, fam, NFT_PREROUTING_CHAIN, inner_dnat_expr(s)) # {}
        /\ Len(b) = IF fwd THEN 5 ELSE 3
        \* a rule comes after its chain, a chain after its table
        /\ \A k \in DOMAIN b :
            b[k].obj.kind = "rule"
                => \E j \in ChainAt(b, b[k].obj.family, b[k].obj.chain) : j < k
        /\ \A j \in DOMAIN b :
            b[j].obj.kind = "chain" => \E i \in TableAt(b, b[j].obj.family) : i < j

\* the ruleset holds the object of an entry (a rule under the handle the kernel gave it)
Holds(rs, o) ==
    \E x \in SeqToSet(rs) :
        /\ x.kind = o.kind /\ x.family = o.family /\ x.table = o.table
        /\ x.chain = o.chain /\ x.expr = o.expr

C21_Batches ==
    \A i \in BatchesFor(FALSE) :
        LET a == batches[i]
        IN  /\ a.ns = thr.spec.netns_name
            /\ InnerBatchWellFormed(a.batch, thr.spec)
            /\ a.ns \in netns =>
                IF a.committed
                THEN \A k \in DOMAIN a.batch : Holds(nft[a.ns], a.batch[k].obj)
                ELSE \A k \in DOMAIN a.batch : ~Holds(nft[a.ns], a.batch[k].obj)

C21_Step ==
    \A n \in NsNames :
        (n \in netns /\ n \in netns' /\ nft'[n] # nft[n])
            => /\ nft'[n] = ApplyBatch(nft[n], InnerBatch(thr.spec))
               /\ Len(nft'[n]) = Len(nft[n]) + Len(InnerBatch(thr.spec))

\* C21: the inner batch Add builds holds, in this order, the table, the postrouting
\* chain and the SNAT rule, and the prerouting chain and the DNAT rule exactly when
\* forwarded_guest_ip is set; each rule comes after its chain and each chain after the
\* table; the batch is applied as one unit, so the inner ruleset holds all of its
\* objects or none.
C21_InnerBatch == []C21_Batches /\ [][C21_Step]_vars

\* C21 witness: the thread has committed the inner batch of a spec with a forwarded
\* guest ip, and the inner ruleset holds its five objects.
C21_Witness ==
    /\ thr.pc = "send" /\ thr.result = "Ok"
    /\ thr.spec.forwarded_guest_ip # NoAddr
    /\ BatchesFor(FALSE) # {}
    /\ \A i \in BatchesFor(FALSE) : batches[i].committed /\ Len(batches[i].batch) = 5
    /\ Len(nft[thr.ns]) = 5

\* the prefix length of a route to one host of the family
HostLength(fam) == IF fam = "V4" THEN 32 ELSE 128

C22_Step ==
    (AtAdd("forward_route") /\ op' # op) =>
        LET fwd == op.spec.forwarded_guest_ip
            gw == op.spec.veth2_ip.address
        IN  /\ op'.pc = "done"
            /\ routes' # routes =>
                /\ fwd # NoAddr /\ fwd.fam = gw.fam
                /\ op'.result = "Ok"
                /\ \E l \in links :
                     /\ l.ns = HOST
                     /\ routes' = routes \cup {Route(HOST, fwd, HostLength(fwd.fam), gw, l.idx)}
            /\ (fwd # NoAddr /\ op'.result = "Ok") => (fwd.fam = gw.fam /\ routes' # routes)
            /\ (fwd # NoAddr /\ fwd.fam # gw.fam) =>
                (routes' = routes /\ op'.result = "ForbiddenDualStackInRoute")
            /\ fwd = NoAddr => (routes' = routes /\ op'.result = "Ok")

\* C22: step 5 of Add adds an outer host route only when forwarded_guest_ip is set and of
\* veth2_ip's family, and then every successful step 5 adds exactly the route to
\* forwarded_guest_ip with prefix length 32 (V4) or 128 (V6) via veth2_ip's address; with a
\* forwarded_guest_ip of the other family it fails without a route; with none set it changes
\* no route and Add succeeds as soon as step 4 has.
C22_ForwardRoute == [][C22_Step]_vars

\* an Add of the V6 network has succeeded and its step 5 has added the host route of
\* prefix length 128 to the forwarded guest ip via veth2's address
C22_Witness ==
    /\ Finished("Add") /\ op.result = "Ok"
    /\ op.spec.forwarded_guest_ip.fam = "V6"
    /\ \E r \in routes \ host0.routes :
         /\ r.ns = HOST /\ r.plen = 128
         /\ r.dst = op.spec.forwarded_guest_ip /\ r.gw = op.spec.veth2_ip.address

\* the sub-operations of step 1 of Add, in the order the claim gives them
StepOne ==
    << "add_veth", "veth1_index", "veth1_addr", "veth1_up", "veth2_index", "netns_new",
       "veth2_setns" >>

StepOneAt(pc) == CHOOSE i \in 1..Len(StepOne) : StepOne[i] = pc

StepOnePcs == {StepOne[i] : i \in 1..Len(StepOne)}

\* the links of the caller's namespace with this name
OuterNamed(ls, name) == {l \in ls : l.ns = HOST /\ l.name = name}

C23_Step ==
    (op.handler = "add" /\ op.pc \in StepOnePcs /\ op' # op) =>
        LET i == StepOneAt(op.pc)
            s == op.spec
        IN  \* each sub-operation is followed by the next one, or ends Add with its error
            /\ \/ op'.pc = "done" /\ op'.result # "Ok" /\ op'.failed_at = op.pc
               \/ i < Len(StepOne) /\ op'.pc = StepOne[i + 1]
               \/ i = Len(StepOne) /\ op'.pc = "netns_get"
            \* each effect on the host is made by its own sub-operation
            /\ (\E l \in links' : \A k \in links : k.idx # l.idx) => op.pc = "add_veth"
            /\ op'.veth1_idx # op.veth1_idx =>
                 op.pc = "veth1_index" /\ \E l \in OuterNamed(links, s.veth1_name) : l.idx = op'.veth1_idx
            /\ (\E l \in links, k \in links' : k.idx = l.idx /\ k.ns = l.ns /\ k.addrs # l.addrs) =>
                 op.pc = "veth1_addr"
            /\ (\E l \in links, k \in links' : k.idx = l.idx /\ k.ns = l.ns /\ k.up # l.up) =>
                 op.pc = "veth1_up"
            \* veth2's index is read from the link in the caller's namespace
            /\ op'.veth2_idx # op.veth2_idx =>
                 op.pc = "veth2_index" /\ \E l \in OuterNamed(links, s.veth2_name) : l.idx = op'.veth2_idx
            /\ netns' # netns => op.pc = "netns_new"
            /\ (\E l \in links, k \in links' : k.idx = l.idx /\ k.ns # l.ns) =>
                 /\ op.pc = "veth2_setns"
                 /\ \A l \in links, k \in links' :
                      (k.idx = l.idx /\ k.ns # l.ns) =>
                          /\ l.idx = op.veth2_idx /\ l.name = s.veth2_name
                          /\ l.ns = HOST /\ k.ns = s.netns_name

\* a namespace that was absent when Add was invoked exists only once veth 1 was created,
\* indexed, addressed and set up and veth2's index was read
C23_NamespaceLast ==
    (op.handler = "add" /\ op.spec.netns_name \in netns \ host0.netns) =>
        /\ op.pc \notin {StepOne[i] : i \in 1..6}
        /\ op.failed_at \notin {StepOne[i] : i \in 1..6}
        /\ \E l \in links : l.name = op.spec.veth1_name /\ l.idx = op.veth1_idx /\ l.up
                            /\ op.spec.veth1_ip \in l.addrs
        /\ op.veth2_idx # 0

\* C23: step 1 of Add runs create veth pair, read veth1 index, assign veth1_ip, set veth1
\* up, read veth2 index, create-or-open the namespace, move veth2, in that order, each
\* ending Add when it fails; veth2's index is read while veth2 is in the outer namespace;
\* the namespace is made only by the last statement, after every earlier sub-operation
\* has succeeded.
C23_StepOneOrder == []C23_NamespaceLast /\ [][C23_Step]_vars

\* step 1 is over: the namespace is new and veth2, with the index read before, is in it
C23_Witness ==
    /\ AtAdd("netns_get")
    /\ op.spec.netns_name \in netns \ host0.netns
    /\ \E l \in links : l.ns = op.spec.netns_name /\ l.name = op.spec.veth2_name
                        /\ l.idx = op.veth2_idx

\* the numbers of instances of a spec's three rules in the outer ruleset
RuleCounts(rs, s) ==
    << Cardinality(OuterRules(rs, NFT_TABLE, NFT_POSTROUTING_CHAIN, outer_masq_expr(s))),
       Cardinality(OuterRules(rs, NFT_TABLE, NFT_FILTER_CHAIN, outer_ingress_forward_expr(s))),
       Cardinality(OuterRules(rs, NFT_TABLE, NFT_FILTER_CHAIN, outer_egress_forward_expr(s))) >>

C24_Counts ==
    \A s \in Specs : LET c == RuleCounts(nft[HOST], s) IN c[1] = c[2] /\ c[2] = c[3]

C24_Step ==
    nft'[HOST] # nft[HOST] =>
        LET c == RuleCounts(nft[HOST], op.spec)
            d == RuleCounts(nft'[HOST], op.spec)
        IN  /\ \A s \in Specs \ {op.spec} : RuleCounts(nft'[HOST], s) = RuleCounts(nft[HOST], s)
            /\ \/ AtAdd("outer_apply") /\ d = << c[1] + 1, c[2] + 1, c[3] + 1 >>
               \/ /\ AtDelete("apply") /\ op'.result = "Ok"
                  /\ d = << c[1] - 1, c[2] - 1, c[3] - 1 >>

\* C24: in every state reached by Add and Delete invocations, with any sub-operation
\* failing, the outer ruleset holds equally many instances of a spec's masquerade,
\* ingress-forward and egress-forward rule; the outer ruleset changes only by an Add's
\* batch, which adds one instance of each, and by a successful Delete's batch, which
\* removes one instance of each.
C24_RulesInStep == []C24_Counts /\ [][C24_Step]_vars

\* an Add after a Delete that removed the namespace and failed before its batch has added
\* a second instance of each of the spec's three rules
C24_Witness ==
    /\ op.kind = "Add" /\ op.pc = "forward_route"
    /\ op.spec.netns_name \notin host0.netns
    /\ RuleCounts(host0.nft[HOST], op.spec) = << 1, 1, 1 >>
    /\ RuleCounts(nft[HOST], op.spec) = << 2, 2, 2 >>

C25_Step ==
    (op.handler = "delete" /\ op.pc \in {"netns_get", "netns_remove"} /\ op' # op) =>
        LET name == op.spec.netns_name
        IN  \/ /\ op'.pc = "done" /\ op'.result = "NetnsError" /\ op'.failed_at = op.pc
               /\ op'.ruleset = op.ruleset
               /\ nft' = nft /\ batches' = batches
            \/ /\ op.pc = "netns_get" /\ name \in netns
               /\ op'.pc = "netns_remove"
               /\ nft' = nft /\ batches' = batches
            \/ /\ op.pc = "netns_remove" /\ name \in netns /\ name \notin netns'
               /\ op'.pc = "get_ruleset"
               /\ nft'[HOST] = nft[HOST] /\ batches' = batches

C25_Returned ==
    (Finished("Delete") /\ (\/ op.spec.netns_name \notin host0.netns
                            \/ op.failed_at \in {"netns_get", "netns_remove"})) =>
        /\ op.result = "NetnsError"
        /\ op.failed_at \in {"netns_get", "netns_remove"}
        /\ op.ruleset = IdleOp.ruleset
        /\ batches = <<>>
        /\ nft[HOST] = host0.nft[HOST]
        /\ AttributableRules(HostRec, op.spec) = AttributableRules(host0, op.spec)

\* C25: a Delete whose namespace does not exist, or whose removal of it fails, returns
\* NetnsError at that sub-operation, has fetched no ruleset and applied no batch, and
\* leaves the outer ruleset, with every rule of its spec, as it was at invocation.
C25_NetnsErrorBeforeRules == []C25_Returned /\ [][C25_Step]_vars

\* a Delete on a host without the namespace but with the spec's three rules has returned
C25_Witness ==
    /\ Finished("Delete")
    /\ op.spec.netns_name \notin host0.netns
    /\ MasqRules(host0, op.spec) # {} /\ IngressRules(host0, op.spec) # {}
    /\ EgressRules(host0, op.spec) # {}

HandleKinds == {"masq", "ingress", "egress"}

KindChain(k) == IF k = "masq" THEN NFT_POSTROUTING_CHAIN ELSE NFT_FILTER_CHAIN

\* the positions of the fetched ruleset at which the scan stores a handle of this kind
ScanHits(network, rs, k) ==
    {i \in 1..Len(rs) : ScanObject(network, NoHandles, rs[i])[k] # NoHandles[k]}

\* the rule whose handle the scan holds at its end: the last one it stored
ScanSelected(network, rs, k) == rs[SetMax(ScanHits(network, rs, k))]

\* C26: every handle in Delete's batch was captured from a rule of the fetched ruleset
\* that lies in the table NFT_TABLE of the spec's nftables family and in the chain of its
\* kind; a rule of an equal expression in NFT_TABLE of another family is never selected.
C26_HandlesOfOwnFamily ==
    AtDelete("apply") =>
        LET h == [masq |-> op.masq_handle, ingress |-> op.ingress_handle,
                  egress |-> op.egress_handle]
        IN  \A k \in HandleKinds :
                /\ ScanHits(op.spec, op.ruleset, k) # {}
                /\ LET o == ScanSelected(op.spec, op.ruleset, k)
                   IN  /\ o.handle = h[k]
                       /\ o.table = NFT_TABLE /\ o.chain = KindChain(k)
                       /\ o.family = nf_family(op.spec)

\* the positions of the three rules whose handles the scan holds at its end
ScanPositions(network, rs) ==
    {SetMax(ScanHits(network, rs, k)) : k \in HandleKinds}

C27_Scan ==
    op.handler = "delete" =>
        /\ \A i \in 1..Len(op.ruleset) :
             LET o == op.ruleset[i]
                 h == ScanObject(op.spec, NoHandles, o)
             IN  /\ (o.kind = "rule" /\ o.expr = outer_ingress_forward_expr(op.spec)) =>
                        h.egress = NoHandles.egress
                 /\ (o.kind = "rule" /\ o.expr = outer_egress_forward_expr(op.spec)) =>
                        h.ingress = NoHandles.ingress
        /\ (op.pc = "apply" \/ (op.pc = "done" /\ op.failed_at = "apply") \/ op.result = "Ok") =>
             Cardinality(ScanPositions(op.spec, op.ruleset)) = 3
        /\ (op.pc = "done" /\ op.result = "Ok") =>
             /\ Len(nft[HOST]) + 3 = Len(host0.nft[HOST])
             /\ Cardinality({op.ruleset[i] : i \in ScanPositions(op.spec, op.ruleset)}
                            \ SeqToSet(nft[HOST])) = 3

\* C27: the ingress-forward and the egress-forward expression of a network differ, also
\* when iface_name equals veth1_name; Delete's scan stores no ingress-forward rule's
\* handle as the egress-forward handle nor the reverse, and the three handles of a
\* successful Delete's batch are those of three different rules, which it removes.
C27_ForwardRulesApart ==
    /\ \A s \in Specs \cup FamilySpecs \cup Networks :
         outer_ingress_forward_expr(s) # outer_egress_forward_expr(s)
    /\ C27_Scan

\* a Delete of a network whose veth1 is named as the host interface has removed the three
\* rules
C27_Witness ==
    /\ Finished("Delete") /\ op.result = "Ok"
    /\ op.spec.iface_name = op.spec.veth1_name
    /\ Len(op.ruleset) = Len(nft[HOST]) + 3

====
